---- MODULE Spec2Model ----
(***************************************************************************)
(* A model of the snippet ingestion pipeline:                              *)
(*   - RepoStatusStore           (src/src/worker/status.py)                *)
(*   - ExtractionPipeline        (src/src/orchestration/extraction.py)     *)
(*   - process_repository        (src/src/worker/worker.py)                *)
(*   - the vector store writer / reader and the repository services        *)
(*     (src/src/vectordb/writer.py, reader.py, src/src/api/service.py)     *)
(*                                                                         *)
(* Three specifications share the variables; each one keeps the variables  *)
(* of the other components at their initial value:                         *)
(*   SpecStore    - arbitrary sequences of RepoStatusStore calls           *)
(*   SpecPipeline - one ExtractionPipeline.run over a batch of units       *)
(*   SpecWorker   - enqueue + process_repository for a set of jobs         *)
(*                                                                         *)
(* Python's None is NONE for strings and the empty tuple <<>> for values   *)
(* of other types (an optional record or integer x is <<>> or <<x>>).      *)
(***************************************************************************)
EXTENDS Integers, Sequences, FiniteSets, TLC

\* ------------------------------------------------------------------ bounds

\* create_pending calls in one behaviour (each takes a fresh created_at)
MaxClock == 2
\* units in the batch handed to ExtractionPipeline.run
MaxUnits == 3
\* largest max_concurrency tried
MaxConcurrency == 2
\* snippets one pipeline run hands to the worker
MaxSnippets == 2

\* ------------------------------------------------------------ shared values

NONE == "None"

STATUS_PENDING == "pending"
STATUS_PROCESSING == "processing"
STATUS_DONE == "done"
STATUS_FAILED == "failed"

\* Python truthiness of an optional string: None and "" are falsy
Truthy(s) == s # NONE /\ s # ""

Min(a, b) == IF a < b THEN a ELSE b
Max(a, b) == IF a > b THEN a ELSE b

\* job ids, repository names, messages, failure reasons, progress arguments
Ids == {"a", "b"}
RepoUrlOf(id) == IF id = "a" THEN "url-a" ELSE "url-b"
RepoNameArgs == {NONE, "org/repo"}
MessageArgs == {NONE, "msg"}
ReasonArgs == {"boom", ""}
ProgressArgs == {<<>>, <<-1>>, <<40>>, <<101>>}

VARIABLES
    \* ---- RepoStatusStore (Redis)
    records,          \* key "repo:record:<id>" -> serialized record
    index,            \* sorted set "repos:index": member id -> score
    clock,            \* source of created_at timestamps
    last,             \* the last store call: operation, arguments, exception, result
    \* ---- ExtractionPipeline.run
    runpc,            \* position of run(): "idle", "processing", "returned", "raised"
    max_concurrency,
    total_files,      \* len(files_data)
    upc,              \* per unit: position of its process_with_progress task
    semaphore,        \* value of the asyncio.Semaphore
    executor,         \* self.executor: "none" or "pool"
    attempts,         \* per unit: number of extraction calls started for it
    outcome,          \* per unit: what the extraction call did ("ok", "false", "raise")
    results,          \* per unit: value returned by process_with_progress
    processed_count,
    callbacks,        \* on_file_complete invocations, in order
    errors,           \* self.errors
    stats,            \* _last_run_stats
    on_file_complete, \* the callback given to run(): what it does when invoked
    storage,          \* self.storage.state["snippets"]: filename -> snippets
    \* ---- process_repository / vector index
    wpc,              \* per job: position of the worker
    wexc,             \* per job: the exception process_repository raised, and where
    wsnippets,        \* per job: snippets returned by pipeline.run
    points,           \* vector index: point id -> payload
    collection,       \* whether the collection exists
    \* ---- a single call of a function or method that keeps no state of its own
    call              \* the call: its name, its arguments and, once made, its result

storeVars == <<records, index, clock, last>>
pipeVars == <<runpc, max_concurrency, total_files, upc, semaphore, executor, attempts,
              outcome, results, processed_count, callbacks, errors, stats,
              on_file_complete, storage>>
workerVars == <<wpc, wexc, wsnippets, points, collection>>
callVars == <<call>>
vars == <<storeVars, pipeVars, workerVars, callVars>>

\* ------------------------------------------------------ RepoStatusStore

\* _coerce_progress: None stays None, anything else is clamped into [0,100]
CoerceProgress(value) ==
    IF value = <<>> THEN <<>> ELSE <<Max(0, Min(100, value[1]))>>

\* max(0, min(100, progress)) in mark_processing / update_progress
ClampProgressIdentity(progress) == progress
ClampProgress(progress) == Max(0, Min(100, progress))

\* RepoRecord.to_dict + json.dumps: the payload stored under the record key
ToDict(record) ==
    [id |-> record.id, url |-> record.url, status |-> record.status,
     repo_name |-> record.repo_name, process_message |-> record.process_message,
     fail_reason |-> record.fail_reason, progress |-> record.progress,
     created_at |-> record.created_at]

\* json.loads + RepoRecord.from_dict
FromDict(data) ==
    [id |-> data.id, url |-> data.url, status |-> data.status,
     repo_name |-> data.repo_name, process_message |-> data.process_message,
     fail_reason |-> data.fail_reason, progress |-> CoerceProgress(data.progress),
     created_at |-> data.created_at]

EmptyStore == [records |-> <<>>, index |-> <<>>]

\* RepoStatusStore.get
Get(st, repo_id) ==
    IF repo_id \in DOMAIN st.records THEN <<FromDict(st.records[repo_id])>> ELSE <<>>

\* a write that sets the payload and leaves the index alone
WriteRecordBodyOnly(st, record) ==
    [records |-> [k \in DOMAIN st.records \cup {record.id} |->
                    IF k = record.id THEN ToDict(record) ELSE st.records[k]],
     index |-> st.index]

\* _write_record: SET key payload + ZADD index {id: created_at}, one pipeline
WriteRecord(st, record) ==
    [records |-> [k \in DOMAIN st.records \cup {record.id} |->
                    IF k = record.id THEN ToDict(record) ELSE st.records[k]],
     index |-> [k \in DOMAIN st.index \cup {record.id} |->
                    IF k = record.id THEN record.created_at ELSE st.index[k]]]

\* _delete_record: DEL key + ZREM index id, one pipeline
DeleteRecordKeepsKey(st, repo_id) ==
    [records |-> st.records,
     index |-> [k \in DOMAIN st.index \ {repo_id} |-> st.index[k]]]
DeleteRecord(st, repo_id) ==
    [records |-> [k \in DOMAIN st.records \ {repo_id} |-> st.records[k]],
     index |-> [k \in DOMAIN st.index \ {repo_id} |-> st.index[k]]]

\* _require_record: the record, or <<>> where the code raises KeyError
RequireRecordCreates(st, repo_id) ==
    IF Get(st, repo_id) = <<>>
    THEN <<[id |-> repo_id, url |-> RepoUrlOf(repo_id), status |-> STATUS_PENDING,
            repo_name |-> NONE, process_message |-> NONE, fail_reason |-> NONE,
            progress |-> <<0>>, created_at |-> 0]>>
    ELSE Get(st, repo_id)
RequireRecord(st, repo_id) == Get(st, repo_id)

\* what a store call leaves behind: the store, the exception, the returned record
Outcome(st, exc, ret) ==
    [records |-> st.records, index |-> st.index, exc |-> exc, ret |-> ret]
Raises(st, exc) == Outcome(st, exc, <<>>)
Returns(st, record) == Outcome(st, "none", <<record>>)

\* create_pending
create_pending(st, repo_id, repo_url, repo_name, now) ==
    LET record == [id |-> repo_id, url |-> repo_url, status |-> STATUS_PENDING,
                   repo_name |-> repo_name, process_message |-> NONE,
                   fail_reason |-> NONE, progress |-> <<0>>, created_at |-> now]
    IN  Returns(WriteRecord(st, record), record)

\* ensure_record
ensure_record(st, repo_id, repo_url, repo_name, now) ==
    LET found == Get(st, repo_id) IN
    IF found = <<>>
    THEN create_pending(st, repo_id, repo_url, repo_name, now)
    ELSE LET record == found[1]
             newName == IF Truthy(repo_name) /\ record.repo_name # repo_name
                        THEN repo_name ELSE record.repo_name
             newUrl == IF Truthy(repo_url) /\ record.url # repo_url
                       THEN repo_url ELSE record.url
             updated == newName # record.repo_name \/ newUrl # record.url
             changed == [record EXCEPT !.repo_name = newName, !.url = newUrl]
         IN  IF updated THEN Returns(WriteRecord(st, changed), changed)
             ELSE Returns(st, record)

\* mark_processing
mark_processing(st, repo_id, message, repo_name, progress) ==
    LET found == RequireRecord(st, repo_id) IN
    IF found = <<>> THEN Raises(st, "KeyError")
    ELSE LET record == [found[1] EXCEPT
                 !.status = STATUS_PROCESSING,
                 !.process_message = IF Truthy(message) THEN message ELSE @,
                 !.repo_name = IF Truthy(repo_name) THEN repo_name ELSE @,
                 !.fail_reason = NONE,
                 !.progress = IF progress # <<>> THEN <<ClampProgress(progress[1])>> ELSE @]
         IN  Returns(WriteRecord(st, record), record)

\* update_progress
update_progress(st, repo_id, message, progress, repo_name) ==
    LET found == RequireRecord(st, repo_id) IN
    IF found = <<>> THEN Raises(st, "KeyError")
    ELSE LET record == [found[1] EXCEPT
                 !.status = STATUS_PROCESSING,
                 !.process_message = message,
                 !.repo_name = IF Truthy(repo_name) THEN repo_name ELSE @,
                 !.progress = IF progress # <<>> THEN <<ClampProgress(progress[1])>> ELSE @]
         IN  Returns(WriteRecord(st, record), record)

\* mark_completed: the record is updated in memory, then deleted from the store
mark_completed_writes(st, repo_id, message, repo_name) ==
    LET found == RequireRecord(st, repo_id) IN
    IF found = <<>> THEN Raises(st, "KeyError")
    ELSE LET record == [found[1] EXCEPT !.status = STATUS_DONE, !.progress = <<100>>]
         IN  Returns(WriteRecord(st, record), record)
mark_completed(st, repo_id, message, repo_name) ==
    LET found == RequireRecord(st, repo_id) IN
    IF found = <<>> THEN Raises(st, "KeyError")
    ELSE LET record == [found[1] EXCEPT
                 !.status = STATUS_DONE,
                 !.process_message = IF Truthy(message) THEN message ELSE @,
                 !.repo_name = IF Truthy(repo_name) THEN repo_name ELSE @,
                 !.fail_reason = NONE,
                 !.progress = <<100>>]
         IN  Returns(DeleteRecord(st, record.id), record)

\* mark_failed
mark_failed_deletes(st, repo_id, reason, message, repo_name) ==
    LET found == RequireRecord(st, repo_id) IN
    IF found = <<>> THEN Raises(st, "KeyError")
    ELSE LET record == [found[1] EXCEPT !.status = STATUS_FAILED, !.fail_reason = reason,
                                        !.progress = <<>>]
         IN  Returns(DeleteRecord(st, record.id), record)
mark_failed(st, repo_id, reason, message, repo_name) ==
    LET found == RequireRecord(st, repo_id) IN
    IF found = <<>> THEN Raises(st, "KeyError")
    ELSE LET record == [found[1] EXCEPT
                 !.status = STATUS_FAILED,
                 !.fail_reason = reason,
                 !.process_message = IF Truthy(message) THEN message ELSE @,
                 !.repo_name = IF Truthy(repo_name) THEN repo_name ELSE @,
                 !.progress = <<>>]
         IN  Returns(WriteRecord(st, record), record)

\* ZREVRANGE index 0 -1: members by descending score
RECURSIVE ZRevRange(_)
ZRevRange(idx) ==
    IF DOMAIN idx = {} THEN <<>>
    ELSE LET top == CHOOSE k \in DOMAIN idx : \A j \in DOMAIN idx : idx[j] <= idx[k]
         IN  <<top>> \o ZRevRange([k \in DOMAIN idx \ {top} |-> idx[k]])

\* list_records: the records of the indexed ids, newest first, ids without a record skipped
RECURSIVE CollectRecords(_, _)
CollectRecords(st, ids) ==
    IF ids = <<>> THEN <<>>
    ELSE Get(st, Head(ids)) \o CollectRecords(st, Tail(ids))
list_records(st) == CollectRecords(st, ZRevRange(st.index))

\* the ids of the records list_records returns
ListedIds(st) == {list_records(st)[i].id : i \in 1..Len(list_records(st))}

Store == [records |-> records, index |-> index]

\* ------------------------------------------------- initial values per component

Units == 1..MaxUnits
Jobs == Ids

InitStoreVars ==
    /\ records = <<>>
    /\ index = <<>>
    /\ clock = 0
    /\ last = [op |-> "none", id |-> NONE, reason |-> NONE, progress |-> <<>>,
               from |-> NONE, exc |-> "none", ret |-> <<>>]

IdlePipeVars ==
    /\ runpc = "idle"
    /\ max_concurrency = 1
    /\ total_files = 0
    /\ upc = [u \in Units |-> "absent"]
    /\ semaphore = 0
    /\ executor = "none"
    /\ attempts = [u \in Units |-> 0]
    /\ outcome = [u \in Units |-> "none"]
    /\ results = [u \in Units |-> "none"]
    /\ processed_count = 0
    /\ callbacks = <<>>
    /\ errors = <<>>
    /\ stats = <<>>
    /\ on_file_complete = "none"
    /\ storage = <<>>

IdleCallVars == call = [op |-> "none"]

IdleWorkerVars ==
    /\ wpc = [j \in Jobs |-> "absent"]
    /\ wexc = [j \in Jobs |-> [phase |-> "none", text |-> ""]]
    /\ wsnippets = [j \in Jobs |-> <<>>]
    /\ points = <<>>
    /\ collection = FALSE

\* ------------------------------------------ SpecStore: calls on RepoStatusStore

\* the call log entry of a store call: the operation and its arguments, the status
\* the call found stored (NONE when there was no record), the exception, the result
StoreApply(op, repo_id, reason, progress, out) ==
    /\ records' = out.records
    /\ index' = out.index
    /\ last' = [op |-> op, id |-> repo_id, reason |-> reason, progress |-> progress,
                from |-> IF Get(Store, repo_id) = <<>> THEN NONE
                         ELSE Get(Store, repo_id)[1].status,
                exc |-> out.exc, ret |-> out.ret]

CreatePending(repo_id, repo_name) ==
    /\ clock < MaxClock
    /\ clock' = clock + 1
    /\ StoreApply("create_pending", repo_id, NONE, <<>>,
                  create_pending(Store, repo_id, RepoUrlOf(repo_id), repo_name, clock + 1))
    /\ UNCHANGED <<pipeVars, workerVars, callVars>>

EnsureRecord(repo_id, repo_name) ==
    /\ Get(Store, repo_id) = <<>> => clock < MaxClock
    /\ clock' = IF Get(Store, repo_id) = <<>> THEN clock + 1 ELSE clock
    /\ StoreApply("ensure_record", repo_id, NONE, <<>>,
                  ensure_record(Store, repo_id, RepoUrlOf(repo_id), repo_name, clock + 1))
    /\ UNCHANGED <<pipeVars, workerVars, callVars>>

MarkProcessing(repo_id, message, repo_name, progress) ==
    /\ StoreApply("mark_processing", repo_id, NONE, progress,
                  mark_processing(Store, repo_id, message, repo_name, progress))
    /\ UNCHANGED <<clock, pipeVars, workerVars, callVars>>

UpdateProgress(repo_id, message, progress, repo_name) ==
    /\ StoreApply("update_progress", repo_id, NONE, progress,
                  update_progress(Store, repo_id, message, progress, repo_name))
    /\ UNCHANGED <<clock, pipeVars, workerVars, callVars>>

MarkCompleted(repo_id, message, repo_name) ==
    /\ StoreApply("mark_completed", repo_id, NONE, <<>>,
                  mark_completed(Store, repo_id, message, repo_name))
    /\ UNCHANGED <<clock, pipeVars, workerVars, callVars>>

MarkFailed(repo_id, reason, message, repo_name) ==
    /\ StoreApply("mark_failed", repo_id, reason, <<>>,
                  mark_failed(Store, repo_id, reason, message, repo_name))
    /\ UNCHANGED <<clock, pipeVars, workerVars, callVars>>

InitStore == InitStoreVars /\ IdlePipeVars /\ IdleWorkerVars /\ IdleCallVars

NextStore ==
    \E repo_id \in Ids :
        \/ \E repo_name \in RepoNameArgs : CreatePending(repo_id, repo_name)
        \/ \E repo_name \in RepoNameArgs : EnsureRecord(repo_id, repo_name)
        \/ \E repo_name \in RepoNameArgs, progress \in ProgressArgs :
              MarkProcessing(repo_id, "msg", repo_name, progress)
        \/ \E progress \in ProgressArgs :
              UpdateProgress(repo_id, "msg", progress, NONE)
        \/ \E message \in MessageArgs : MarkCompleted(repo_id, message, NONE)
        \/ \E message \in MessageArgs, reason \in ReasonArgs :
              MarkFailed(repo_id, reason, message, NONE)

SpecStore == InitStore /\ [][NextStore]_vars

\* ------- SpecDelivery: the store calls of two executions of one job, interleaved

\* the executions working on the job: its delivery and a duplicate delivery
Executions == {1, 2}
JobId == "a"

\* the store calls process_repository makes once the record of the job exists
ExecutionOps == {"mark_processing", "update_progress", "mark_failed", "mark_completed"}

\* a store call that requires the record, evaluated on the store st it reads
StoreCall(op, st, progress) ==
    IF op = "mark_processing" THEN mark_processing(st, JobId, "msg", NONE, progress)
    ELSE IF op = "update_progress" THEN update_progress(st, JobId, "msg", progress, NONE)
    ELSE IF op = "mark_failed" THEN mark_failed(st, JobId, "boom", NONE, NONE)
    ELSE mark_completed(st, JobId, NONE, NONE)

\* an execution between two store calls
IdleExecution == [pc |-> "idle", op |-> "none", progress |-> <<>>, record |-> <<>>]

DeliveryFrame == UNCHANGED <<clock, last, pipeVars, workerVars>>

\* the record of the job is created when the job is submitted, once
CreateJob ==
    /\ call.op = "deliveries"
    /\ clock = 0
    /\ CreatePending(JobId, NONE)

\* execution e enters a store call: _require_record is about to read
BeginStoreCall(e, op, progress) ==
    /\ call.op = "deliveries"
    /\ call.exec[e].pc \in {"idle", "returned", "raised"}
    /\ call' = [call EXCEPT !.exec[e] = [pc |-> "require", op |-> op,
                                         progress |-> progress, record |-> <<>>]]
    /\ UNCHANGED <<records, index>>
    /\ DeliveryFrame

\* _require_record: redis GET; KeyError when there is no record, else the fields of
\* the record read are changed in memory
RequireRecordStep(e) ==
    /\ call.op = "deliveries"
    /\ call.exec[e].pc = "require"
    /\ LET out == StoreCall(call.exec[e].op, Store, call.exec[e].progress) IN
       call' = IF out.exc # "none"
               THEN [call EXCEPT !.exec[e].pc = "raised"]
               ELSE [call EXCEPT !.exec[e].pc = "write", !.exec[e].record = out.ret]
    /\ UNCHANGED <<records, index>>
    /\ DeliveryFrame

\* _write_record / _delete_record: the pipeline of the call executes on the store as
\* it is now; completed records that a mark_completed has deleted the record
WritePipeline(e) ==
    /\ call.op = "deliveries"
    /\ call.exec[e].pc = "write"
    /\ LET record == call.exec[e].record[1]
           st == IF call.exec[e].op = "mark_completed"
                 THEN DeleteRecord(Store, record.id)
                 ELSE WriteRecord(Store, record)
       IN  /\ records' = st.records
           /\ index' = st.index
    /\ call' = [call EXCEPT !.exec[e].pc = "returned",
                            !.completed = @ \/ call.exec[e].op = "mark_completed"]
    /\ DeliveryFrame

InitDelivery ==
    /\ InitStoreVars /\ IdlePipeVars /\ IdleWorkerVars
    /\ call = [op |-> "deliveries", exec |-> [e \in Executions |-> IdleExecution],
               completed |-> FALSE]

NextDelivery ==
    \/ CreateJob
    \/ \E e \in Executions, op \in ExecutionOps, progress \in ProgressArgs :
          BeginStoreCall(e, op, IF op \in {"mark_processing", "update_progress"}
                       THEN progress ELSE <<>>)
    \/ \E e \in Executions : RequireRecordStep(e)
    \/ \E e \in Executions : WritePipeline(e)

SpecDelivery == InitDelivery /\ [][NextDelivery]_vars

\* C29: every write sets the record body and the index entry in one step and every
\* delete removes both in one step: in every state of two interleaved executions
\* an id is in the index if and only if its record body is stored.
C29_IndexMatchesBodies ==
    call.op = "deliveries" => DOMAIN index = DOMAIN records

\* C29 witness: the record was written, then deleted by mark_completed, while the
\* other execution has read it and is about to write
C29_WriterInFlightAfterDelete ==
    /\ call.op = "deliveries"
    /\ call.completed
    /\ JobId \notin DOMAIN records
    /\ \E e \in Executions : call.exec[e].pc = "write"

\* C30 as stated: once mark_completed has removed the record of the job, no
\* update_progress, mark_processing or mark_failed of the other execution that was
\* in flight re-creates it: get(id) stays None and the id stays out of the index.
C30_CompletedNotRecreated ==
    (call.op = "deliveries" /\ call.completed)
    => Get(Store, JobId) = <<>> /\ JobId \notin DOMAIN index

\* ------------------------------------------------------------ SnippetStorage

\* texts are sequences of characters
Whitespace == {"\n", " "}

\* str.rstrip() and str.lstrip()
RECURSIVE RStrip(_)
RStrip(line) ==
    IF line # <<>> /\ line[Len(line)] \in Whitespace
    THEN RStrip(SubSeq(line, 1, Len(line) - 1)) ELSE line
RECURSIVE LStrip(_)
LStrip(line) == IF line # <<>> /\ Head(line) \in Whitespace THEN LStrip(Tail(line)) ELSE line

\* the field validator of Snippet: value.strip()
StripStrings(value) == RStrip(LStrip(value))

\* Snippet(title=..., ...): every field stripped
Snippet(title, description, language, code, filename) ==
    [title |-> StripStrings(title), description |-> StripStrings(description),
     language |-> StripStrings(language), code |-> StripStrings(code),
     filename |-> StripStrings(filename)]

\* state["snippets"] is a dict, which keeps its keys in the order they were added: a
\* sequence of entries, one per filename
Filenames(state) == {state[k].filename : k \in 1..Len(state)}

\* SnippetStorage.register_file
register_file(state, filename) ==
    IF filename \in Filenames(state) THEN state
    ELSE Append(state, [filename |-> filename, snippets |-> <<>>])

\* the test at the head of add_snippet, made on the fields with surrounding
\* whitespace removed
AllFieldsGivenStripped(fields) == \A k \in 1..Len(fields) : StripStrings(fields[k]) # <<>>

\* the test at the head of add_snippet: "not title or not description or ..."
AllFieldsGiven(fields) == \A k \in 1..Len(fields) : fields[k] # <<>>

\* SnippetStorage.add_snippet: the new state and the value of "added"
add_snippet(state, title, description, language, code, filename) ==
    IF ~AllFieldsGiven(<<title, description, language, code, filename>>)
    THEN [state |-> state, added |-> FALSE]
    ELSE LET registered == register_file(state, filename) IN
         [state |-> [k \in 1..Len(registered) |->
                        IF registered[k].filename = filename
                        THEN [registered[k] EXCEPT !.snippets =
                                Append(@, Snippet(title, description, language, code,
                                                  filename))]
                        ELSE registered[k]],
          added |-> TRUE]

\* SnippetStorage.get_all_snippets: the lists of the files, one after the other
RECURSIVE get_all_snippets(_)
get_all_snippets(state) ==
    IF state = <<>> THEN <<>>
    ELSE Head(state).snippets \o get_all_snippets(Tail(state))

\* ------------------------------------- SpecPipeline: ExtractionPipeline.run

\* asyncio.Semaphore: acquire goes through without waiting only while the value is > 0
SemaphoreAlwaysFree(value) == TRUE
SemaphoreFree(value) == value > 0

\* _process_single_file around the executor call: what the coroutine gets back for
\* what the extraction did. "ok": extract_from_content returned True; "false": it
\* returned False; "raise": the call in the pool raised an Exception, which the
\* except clause turns into False and an entry of self.errors.
ProcessSingleFilePropagates(what) ==
    [raised |-> what = "raise", value |-> what = "ok", error |-> FALSE]
ProcessSingleFile(what) ==
    [raised |-> FALSE, value |-> what = "ok", error |-> what = "raise"]

Loaded == {u \in Units : u <= total_files}
\* units whose _process_single_file call has started and has not returned
InFlight == {u \in Units : upc[u] \in {"submitted", "extracting", "extracted"}}
\* units whose extraction is running on a pool thread
OnThread == {u \in Units : upc[u] = "extracting"}

\* file_data.relative_path of a unit
RelativePathOf(u) == <<"f", ToString(u)>>

\* storage.clear_snippets() and register_file for the n units, in order
RECURSIVE RegisterFiles(_, _)
RegisterFiles(state, n) ==
    IF n = 0 THEN state
    ELSE register_file(RegisterFiles(state, n - 1), RelativePathOf(n))

\* the callbacks given to run(): None, one that returns, one that raises an
\* Exception on its first invocation, one that raises on every invocation
Callbacks == {"none", "returns", "raises_first", "raises"}
CallbackRaises(callback, current_index) ==
    callback = "raises" \/ (callback = "raises_first" /\ current_index = 1)

\* a callback that is no longer invoked once an invocation of it has raised
InvokedUntilItRaises(callback, invocations) ==
    callback # "none" /\ \A k \in 1..Len(invocations) : ~invocations[k].raised

\* "if on_file_complete is not None": the callback is invoked, inside try/except
Invoked(callback, invocations) == callback # "none"

\* ExtractionPipeline.cleanup: the pool is shut down and self.executor is None
cleanup(pool) == "none"

\* a cleanup that is called after asyncio.run only, without try/finally
CleanupAfterReturn(pool, path) == IF path = "return" THEN cleanup(pool) ELSE pool

\* the try/finally of run(): cleanup() is called on the path that leaves asyncio.run,
\* "return" or "raise"
Finally(pool, path) == cleanup(pool)

\* run(): load_files found n units; the pool is created and _process_files starts
\* (or, for an empty batch, the run is over at once)
RunStart(n, callback) ==
    /\ runpc = "idle"
    /\ total_files' = n
    /\ errors' = <<>>
    /\ on_file_complete' = callback
    /\ storage' = RegisterFiles(<<>>, n)
    /\ IF n = 0
       THEN /\ runpc' = "returned"
            /\ stats' = <<[successful |-> 0, failed |-> 0, total_files |-> 0]>>
            /\ UNCHANGED <<upc, semaphore, executor, processed_count>>
       ELSE /\ runpc' = "processing"
            /\ executor' = "pool"
            /\ semaphore' = max_concurrency
            /\ processed_count' = 0
            /\ upc' = [u \in Units |-> IF u <= n THEN "waiting" ELSE "absent"]
            /\ UNCHANGED stats
    /\ UNCHANGED <<max_concurrency, attempts, outcome, results, callbacks>>
    /\ UNCHANGED <<storeVars, workerVars, callVars>>

\* run(): load_files raises (missing path, glob without a match) before anything starts
RunLoadFails ==
    /\ runpc = "idle"
    /\ runpc' = "raised"
    /\ UNCHANGED <<max_concurrency, total_files, upc, semaphore, executor, attempts,
                   outcome, results, processed_count, callbacks, errors, stats,
                   on_file_complete, storage>>
    /\ UNCHANGED <<storeVars, workerVars, callVars>>

\* process_with_progress: "async with semaphore" entered, _process_single_file
\* hands the unit to the pool
Acquire(u) ==
    /\ runpc = "processing"
    /\ upc[u] = "waiting"
    /\ SemaphoreFree(semaphore)
    /\ semaphore' = semaphore - 1
    /\ upc' = [upc EXCEPT ![u] = "submitted"]
    /\ attempts' = [attempts EXCEPT ![u] = @ + 1]
    /\ UNCHANGED <<runpc, max_concurrency, total_files, executor, outcome, results,
                   processed_count, callbacks, errors, stats, on_file_complete, storage>>
    /\ UNCHANGED <<storeVars, workerVars, callVars>>

\* a pool thread (max_workers = max_concurrency) starts _run_extractor_sync
ThreadStart(u) ==
    /\ upc[u] = "submitted"
    /\ executor = "pool"
    /\ Cardinality(OnThread) < max_concurrency
    /\ upc' = [upc EXCEPT ![u] = "extracting"]
    /\ UNCHANGED <<runpc, max_concurrency, total_files, semaphore, executor, attempts,
                   outcome, results, processed_count, callbacks, errors, stats,
                   on_file_complete, storage>>
    /\ UNCHANGED <<storeVars, workerVars, callVars>>

\* the add_snippet calls the agent makes while it works on a unit: adds snippets,
\* each with the path of the unit as its filename
RECURSIVE AgentAdds(_, _, _)
AgentAdds(state, u, adds) ==
    IF adds = 0 THEN state
    ELSE add_snippet(AgentAdds(state, u, adds - 1), <<"t">>, <<"d">>, <<"p", "y">>,
                     <<"c", ToString(adds)>>, RelativePathOf(u)).state

\* the extraction ends on its thread: after the agent has made adds calls of the
\* add_snippet tool, extract_from_content returns True, returns False (Agent.arun
\* raised, or answered with no text) or raises
ThreadFinish(u, what, adds) ==
    /\ upc[u] = "extracting"
    /\ outcome' = [outcome EXCEPT ![u] = what]
    /\ storage' = AgentAdds(storage, u, adds)
    /\ upc' = [upc EXCEPT ![u] = "extracted"]
    /\ UNCHANGED <<runpc, max_concurrency, total_files, semaphore, executor, attempts,
                   results, processed_count, callbacks, errors, stats, on_file_complete>>
    /\ UNCHANGED <<storeVars, workerVars, callVars>>

\* an increment that is lost when the counter already stands at 1
BumpLost(count) == IF count = 1 THEN count ELSE count + 1

\* "processed_count += 1; current_index = processed_count" under progress_lock
Bump(count) == count + 1

\* the coroutine resumes with the outcome: _process_single_file returns, the
\* semaphore is released, the counter is bumped under the lock and on_file_complete
\* is called; there is no suspension point in between. An exception that left
\* _process_single_file would fail the task, asyncio.gather would re-raise it, the
\* other tasks would be cancelled and run() would raise after cleanup().
Resume(u) ==
    /\ runpc = "processing"
    /\ upc[u] = "extracted"
    /\ LET res == ProcessSingleFile(outcome[u]) IN
       /\ semaphore' = semaphore + 1
       /\ IF res.raised
          THEN /\ runpc' = "raised"
               /\ executor' = Finally(executor, "raise")
               /\ upc' = [v \in Units |->
                            IF v = u THEN "failed"
                            ELSE IF upc[v] \in {"done", "absent"} THEN upc[v]
                            ELSE "cancelled"]
               /\ UNCHANGED <<results, processed_count, callbacks, errors>>
          ELSE /\ errors' = IF res.error THEN Append(errors, u) ELSE errors
               /\ processed_count' = Bump(processed_count)
               /\ callbacks' = IF ~Invoked(on_file_complete, callbacks) THEN callbacks
                                ELSE Append(callbacks,
                                       [unit |-> u, success |-> res.value,
                                        index |-> Bump(processed_count),
                                        total |-> total_files,
                                        raised |-> CallbackRaises(on_file_complete,
                                                                  Bump(processed_count))])
               /\ results' = [results EXCEPT ![u] = res.value]
               /\ upc' = [upc EXCEPT ![u] = "done"]
               /\ UNCHANGED <<runpc, executor>>
    /\ UNCHANGED <<max_concurrency, total_files, attempts, outcome, stats,
                   on_file_complete, storage>>
    /\ UNCHANGED <<storeVars, workerVars, callVars>>

\* asyncio.gather returns: the statistics are computed, cleanup() shuts the pool down
\* and run() returns
RunFinish ==
    /\ runpc = "processing"
    /\ \A u \in Loaded : upc[u] = "done"
    /\ LET successful == Cardinality({u \in Loaded : results[u] = TRUE}) IN
       stats' = <<[successful |-> successful, failed |-> total_files - successful,
                   total_files |-> total_files]>>
    /\ executor' = Finally(executor, "return")
    /\ runpc' = "returned"
    /\ UNCHANGED <<max_concurrency, total_files, upc, semaphore, attempts, outcome,
                   results, processed_count, callbacks, errors, on_file_complete, storage>>
    /\ UNCHANGED <<storeVars, workerVars, callVars>>

\* a KeyboardInterrupt or SystemExit ends asyncio.run while the units are processed:
\* the tasks are cancelled, a call that is running in the pool runs on, and run()
\* enters its finally clause
Interrupt ==
    /\ runpc = "processing"
    /\ runpc' = "unwinding"
    /\ upc' = [u \in Units |->
                 IF upc[u] \in {"done", "absent", "extracting"} THEN upc[u]
                 ELSE "cancelled"]
    /\ UNCHANGED <<max_concurrency, total_files, semaphore, executor, attempts, outcome,
                   results, processed_count, callbacks, errors, stats, on_file_complete,
                   storage>>
    /\ UNCHANGED <<storeVars, workerVars, callVars>>

\* the finally clause after an interruption: cleanup() waits for the calls running in
\* the pool (shutdown(wait=True)), then the interruption leaves run()
CleanupInterrupted ==
    /\ runpc = "unwinding"
    /\ OnThread = {}
    /\ executor' = Finally(executor, "raise")
    /\ runpc' = "interrupted"
    /\ UNCHANGED <<max_concurrency, total_files, upc, semaphore, attempts, outcome,
                   results, processed_count, callbacks, errors, stats, on_file_complete,
                   storage>>
    /\ UNCHANGED <<storeVars, workerVars, callVars>>

InitPipeline ==
    /\ InitStoreVars /\ IdleWorkerVars /\ IdleCallVars
    /\ runpc = "idle"
    /\ max_concurrency \in 1..MaxConcurrency
    /\ total_files = 0
    /\ upc = [u \in Units |-> "absent"]
    /\ semaphore = 0
    /\ executor = "none"
    /\ attempts = [u \in Units |-> 0]
    /\ outcome = [u \in Units |-> "none"]
    /\ results = [u \in Units |-> "none"]
    /\ processed_count = 0
    /\ callbacks = <<>>
    /\ errors = <<>>
    /\ stats = <<>>
    /\ on_file_complete = "none"
    /\ storage = <<>>

NextPipeline ==
    \/ \E n \in 0..MaxUnits, callback \in Callbacks : RunStart(n, callback)
    \/ RunLoadFails
    \/ \E u \in Units :
          \/ Acquire(u)
          \/ ThreadStart(u)
          \/ \E what \in {"ok", "false", "raise"}, adds \in {0, 1} :
                ThreadFinish(u, what, adds)
          \/ Resume(u)
    \/ RunFinish

SpecPipeline == InitPipeline /\ [][NextPipeline]_vars

\* runs without a callback and without snippets that may be interrupted
NextInterrupted ==
    \/ \E n \in 0..MaxUnits : RunStart(n, "none")
    \/ RunLoadFails
    \/ \E u \in Units :
          \/ Acquire(u)
          \/ ThreadStart(u)
          \/ \E what \in {"ok", "false", "raise"} : ThreadFinish(u, what, 0)
          \/ Resume(u)
    \/ RunFinish
    \/ Interrupt
    \/ CleanupInterrupted

SpecInterrupted == InitPipeline /\ [][NextInterrupted]_vars

\* ---------------------------------------------------- ExtractionPipeline claims

\* C1: at no point are more than max_concurrency extraction calls started and not
\* yet finished (inside _process_single_file, or running on a pool thread).
C1_ConcurrencyBound ==
    /\ Cardinality(InFlight) <= max_concurrency
    /\ Cardinality(OnThread) <= max_concurrency

\* C1 witness: the bound is reached with more than one call in flight while another
\* unit waits for the semaphore
C1_BoundReached ==
    /\ max_concurrency > 1
    /\ Cardinality(OnThread) = max_concurrency
    /\ \E u \in Units : upc[u] = "waiting"

\* C2: whatever subset of the extraction calls raises or returns False, run() does
\* not raise because of them, every unit is attempted exactly once, and the
\* statistics have successful + failed = N with failed = the number of units whose
\* call raised or returned False.
C2_FailureIsolation ==
    /\ runpc = "raised" => \A u \in Units : attempts[u] = 0
    /\ runpc = "returned" =>
         /\ \A u \in Loaded : attempts[u] = 1
         /\ stats[1].successful + stats[1].failed = total_files
         /\ stats[1].failed = Cardinality({u \in Loaded : outcome[u] # "ok"})
         /\ stats[1].successful = Cardinality({u \in Loaded : outcome[u] = "ok"})

\* C2 witness: a finished run of three units, one that raised, one that returned
\* False and one that succeeded
C2_MixedOutcomes ==
    /\ runpc = "returned" /\ total_files >= 3
    /\ \E u, v, w \in Loaded :
          outcome[u] = "raise" /\ outcome[v] = "false" /\ outcome[w] = "ok"
    /\ stats[1].failed = total_files - 1 /\ stats[1].successful = 1

\* C22 as stated: after run() every unit counted as failed, whether its extraction
\* raised or returned False, has an entry in self.errors, so the number of entries
\* equals the failed count.
C22_FailedUnitsHaveErrors ==
    runpc = "returned" =>
        /\ \A u \in Loaded :
              results[u] = FALSE => \E k \in 1..Len(errors) : errors[k] = u
        /\ Len(errors) = stats[1].failed

\* C23: with a callback given, a run of N units invokes it exactly once per unit,
\* also when invocations raise: the run does not raise because of them and the
\* counts are those of the extraction outcomes.
C23_CallbackOncePerUnit ==
    /\ (runpc = "raised" /\ on_file_complete # "none") => callbacks = <<>>
    /\ (runpc = "returned" /\ on_file_complete # "none") =>
          /\ Len(callbacks) = total_files
          /\ \A u \in Loaded :
                Cardinality({k \in 1..Len(callbacks) : callbacks[k].unit = u}) = 1
          /\ stats[1].successful = Cardinality({u \in Loaded : outcome[u] = "ok"})
          /\ stats[1].failed = Cardinality({u \in Loaded : outcome[u] # "ok"})

\* a finished run of at least two units whose callback raised on its first
\* invocation and was invoked for the other units after that
C23_RaisedThenInvokedAgain ==
    /\ runpc = "returned" /\ total_files >= 2
    /\ on_file_complete = "raises_first"
    /\ callbacks[1].raised
    /\ Len(callbacks) = total_files
    /\ ~callbacks[Len(callbacks)].raised
    /\ stats[1].successful >= 1

\* C39: whatever the order in which the units finish, the k-th invocation of
\* on_file_complete receives the completed count k and the total count N, so a
\* returned run has delivered 1, 2, ..., N, each once and in increasing order.
C39_CountsInInvocationOrder ==
    /\ \A k \in 1..Len(callbacks) :
          callbacks[k].index = k /\ callbacks[k].total = total_files
    /\ (runpc = "returned" /\ on_file_complete # "none") => Len(callbacks) = total_files

\* C39 witness: a returned run of three units whose last unit finished first and
\* whose first unit finished last
C39_FinishedOutOfOrder ==
    /\ runpc = "returned" /\ total_files = 3
    /\ Len(callbacks) = 3
    /\ callbacks[1].unit = 3 /\ callbacks[3].unit = 1
    /\ callbacks[3].index = 3

\* the unit a stored snippet was added for
UnitOf(snippet) == CHOOSE u \in Units : StripStrings(RelativePathOf(u)) = snippet.filename

\* C24 as stated: every snippet run() returns was added during the extraction of a
\* unit that is counted as successful, and no snippet is returned twice.
C24_SnippetsOfSuccessfulUnitsOnly ==
    runpc = "returned" =>
        LET snippets == get_all_snippets(storage) IN
        /\ \A k \in 1..Len(snippets) : results[UnitOf(snippets[k])] = TRUE
        /\ \A j, k \in 1..Len(snippets) : snippets[j] = snippets[k] => j = k

\* C25: whenever run() has returned or raised, by normal completion, by an exception
\* or by an interruption of the processing, the pool is shut down and self.executor
\* is None.
C25_PoolReleasedOnEveryExit ==
    runpc \in {"returned", "raised", "interrupted"} => executor = "none"

\* an interrupted run that had to wait in cleanup() for a call running in the pool,
\* with other units cancelled
C25_InterruptedWhileExtracting ==
    /\ runpc = "interrupted"
    /\ executor = "none"
    /\ \E u, v \in Loaded : upc[u] = "extracted" /\ upc[v] = "cancelled"

\* ------------------------------------------------ vector index: writer, reader

\* DBConfig.upsert_batch_size
upsert_batch_size == 100

RepoNameOf(job_id) == IF job_id = "a" THEN "org/a" ELSE "org/b"
Titles == {"t1", "t2"}

\* a snippet as the pipeline returns it for a job: repository fields not yet set
SnippetOf(job_id, title) ==
    [title |-> title, description |-> "d", language |-> "python",
     code |-> <<"code", job_id, title>>, path |-> "src/x.py",
     repo |-> NONE, repo_name |-> NONE, repo_url |-> NONE, ingest_id |-> NONE]

\* the snippet lists of at most MaxSnippets snippets a run can return for a job
RECURSIVE SnippetLists(_, _)
SnippetLists(job_id, n) ==
    IF n = 0 THEN {<<>>}
    ELSE SnippetLists(job_id, n - 1) \cup
         {Append(l, SnippetOf(job_id, t)) :
            l \in {x \in SnippetLists(job_id, n - 1) : Len(x) = n - 1}, t \in Titles}

\* _enrich_snippets
EnrichSnippets(snippets, repo_url, repo_name, ingest_id) ==
    [i \in 1..Len(snippets) |->
        [snippets[i] EXCEPT !.repo = repo_name, !.repo_name = repo_name,
                            !.repo_url = repo_url, !.ingest_id = ingest_id]]

\* an embedding input that also takes in the code of the snippet
EmbeddingInputWithCode(snippet) == <<snippet.title, snippet.description, snippet.code>>

\* SnippetVectorWriter._embedding_input: f"{title}\n\n{description}"
EmbeddingInput(snippet) == <<snippet.title, snippet.description>>

\* SnippetVectorWriter._point_id: uuid5(NAMESPACE_URL, embedding_input)
PointId(embedding_input) == <<"uuid5", embedding_input>>

\* SnippetVectorWriter._build_payload (fields that are None are left out of the
\* payload; here they stay NONE, which is what payload.get returns for them)
BuildPayload(snippet, embedding_input) ==
    [title |-> snippet.title, description |-> snippet.description,
     language |-> snippet.language, code |-> snippet.code, path |-> snippet.path,
     repo |-> snippet.repo, repo_name |-> snippet.repo_name,
     repo_url |-> snippet.repo_url, ingest_id |-> snippet.ingest_id,
     embedding_input |-> embedding_input]

\* one client.upsert call: the points of the batch replace the points with their ids
\* (for an id that occurs twice in the batch the later point is the one kept)
Upsert(pts, batch) ==
    LET ids == {PointId(EmbeddingInput(batch[i])) : i \in 1..Len(batch)}
        lastOf(p) == CHOOSE i \in 1..Len(batch) :
                        /\ PointId(EmbeddingInput(batch[i])) = p
                        /\ \A k \in 1..Len(batch) :
                              PointId(EmbeddingInput(batch[k])) = p => k <= i
    IN  [p \in DOMAIN pts \cup ids |->
            IF p \in ids
            THEN BuildPayload(batch[lastOf(p)], EmbeddingInput(batch[lastOf(p)]))
            ELSE pts[p]]

\* the upsert loop of write: batches of batch_size snippets, in order
RECURSIVE UpsertBatches(_, _, _)
UpsertBatches(pts, list, batch_size) ==
    IF list = <<>> THEN pts
    ELSE LET n == Min(batch_size, Len(list)) IN
         UpsertBatches(Upsert(pts, SubSeq(list, 1, n)),
                       SubSeq(list, n + 1, Len(list)), batch_size)

\* SnippetVectorWriter.write. nvectors is the number of vectors the embedding client
\* returns for the inputs; fault is "none", "embed" (the embedding request raises) or
\* "upsert" (the index call raises before a point is stored).
write(pts, coll, snippets, nvectors, fault) ==
    LET limit == Min(Len(snippets), nvectors)
        list == SubSeq(snippets, 1, limit)
    IN  IF snippets = <<>>
        THEN [points |-> pts, collection |-> coll, exc |-> "", written |-> 0]
        ELSE IF fault = "embed"
        THEN [points |-> pts, collection |-> coll, exc |-> "embedding failed",
              written |-> 0]
        ELSE IF limit = 0
        THEN [points |-> pts, collection |-> coll, exc |-> "", written |-> 0]
        ELSE IF fault = "upsert"
        THEN [points |-> pts, collection |-> TRUE, exc |-> "index unavailable",
              written |-> 0]
        ELSE [points |-> UpsertBatches(pts, list, Max(1, upsert_batch_size)),
              collection |-> TRUE, exc |-> "", written |-> Len(list)]

\* _coerce_repo_url / _coerce_repo_name
CoerceRepoUrl(payload) ==
    IF Truthy(payload.repo_url) THEN payload.repo_url
    ELSE IF Truthy(payload.repo) THEN payload.repo ELSE NONE
CoerceRepoName(payload) ==
    IF Truthy(payload.repo_name) THEN payload.repo_name
    ELSE IF Truthy(payload.repo) THEN payload.repo ELSE NONE

\* _load_completed_repo_metadata: the payload of one point of the ingest (scroll with
\* limit 1 and an ingest_id filter), <<>> when there is none
LoadCompletedRepoMetadata(pts, ingest_id) ==
    LET hits == {p \in DOMAIN pts : pts[p].ingest_id = ingest_id} IN
    IF hits = {} THEN <<>> ELSE <<pts[CHOOSE p \in hits : TRUE]>>

\* SnippetVectorReader.get_completed_repository
get_completed_repository(pts, ingest_id) ==
    LET payload == LoadCompletedRepoMetadata(pts, ingest_id) IN
    IF payload = <<>> THEN <<>>
    ELSE IF ~Truthy(CoerceRepoUrl(payload[1])) THEN <<>>
    ELSE <<[ingest_id |-> ingest_id, repo_url |-> CoerceRepoUrl(payload[1]),
            repo_name |-> CoerceRepoName(payload[1]),
            snippet_count |->
                Cardinality({p \in DOMAIN pts : pts[p].ingest_id = ingest_id})]>>

\* get_repository_service: the status it reports, "404" for HTTP 404 not found
get_repository_service(st, pts, repo_id) ==
    IF Get(st, repo_id) = <<>>
    THEN IF get_completed_repository(pts, repo_id) = <<>> THEN "404" ELSE STATUS_DONE
    ELSE Get(st, repo_id)[1].status

\* ---------------------------------- SpecWorker: enqueue and process_repository

StoreOf(out) == [records |-> out.records, index |-> out.index]

\* _format_reason: str(exc).strip() or the exception class name
FormatReason(text) == IF text \in {"", " "} THEN "RuntimeError" ELSE text
ExceptionTexts == {"boom", " "}

LogCall(op, repo_id, reason, st, out) ==
    [op |-> op, id |-> repo_id, reason |-> reason, progress |-> <<>>,
     from |-> IF Get(st, repo_id) = <<>> THEN NONE ELSE Get(st, repo_id)[1].status,
     exc |-> out.exc, ret |-> out.ret]

\* the except clause of process_repository: mark_failed, then re-raise
FailJob(job_id, st, phase, text) ==
    LET out == mark_failed(st, job_id, FormatReason(text),
                           "Repository processing failed", RepoNameOf(job_id))
    IN  /\ records' = out.records
        /\ index' = out.index
        /\ last' = LogCall("mark_failed", job_id, FormatReason(text), st, out)
        /\ wpc' = [wpc EXCEPT ![job_id] = "raised"]
        /\ wexc' = [wexc EXCEPT ![job_id] = [phase |-> phase, text |-> text]]

\* enqueue_repository: create_pending, then queue.enqueue; when the queue raises the
\* record is marked failed and the job never reaches a worker
Enqueue(job_id, queued) ==
    /\ wpc[job_id] = "absent"
    /\ clock < MaxClock
    /\ clock' = clock + 1
    /\ LET created == create_pending(Store, job_id, RepoUrlOf(job_id),
                                     RepoNameOf(job_id), clock + 1)
           failed == mark_failed(StoreOf(created), job_id, "queue down", NONE, NONE)
       IN  IF queued
           THEN /\ records' = created.records
                /\ index' = created.index
                /\ last' = LogCall("create_pending", job_id, NONE, Store, created)
                /\ wpc' = [wpc EXCEPT ![job_id] = "queued"]
           ELSE /\ records' = failed.records
                /\ index' = failed.index
                /\ last' = LogCall("mark_failed", job_id, "queue down",
                                   StoreOf(created), failed)
                /\ wpc' = [wpc EXCEPT ![job_id] = "rejected"]
    /\ UNCHANGED <<wexc, wsnippets, points, collection, pipeVars, callVars>>

\* process_repository up to the clone: ensure_record, mark_processing("Cloning")
WorkerBegin(job_id) ==
    /\ wpc[job_id] = "queued"
    /\ LET ensured == ensure_record(Store, job_id, RepoUrlOf(job_id),
                                    RepoNameOf(job_id), clock + 1)
           out == mark_processing(StoreOf(ensured), job_id, "Cloning repository",
                                  RepoNameOf(job_id), <<>>)
       IN  /\ records' = out.records
           /\ index' = out.index
           /\ last' = LogCall("mark_processing", job_id, NONE, StoreOf(ensured), out)
    /\ wpc' = [wpc EXCEPT ![job_id] = "cloning"]
    /\ UNCHANGED <<clock, wexc, wsnippets, points, collection, pipeVars, callVars>>

\* the clone ends: on success mark_processing("Extracting") and pipeline.run starts,
\* on failure (text is the exception's message) the except clause runs
CloneDone(job_id, text) ==
    /\ wpc[job_id] = "cloning"
    /\ IF text = ""
       THEN LET out == mark_processing(Store, job_id,
                                       "Extracting snippets from repository",
                                       RepoNameOf(job_id), <<>>)
            IN  /\ records' = out.records
                /\ index' = out.index
                /\ last' = LogCall("mark_processing", job_id, NONE, Store, out)
                /\ wpc' = [wpc EXCEPT ![job_id] = "extracting"]
                /\ UNCHANGED wexc
       ELSE FailJob(job_id, Store, "clone", text)
    /\ UNCHANGED <<clock, wsnippets, points, collection, pipeVars, callVars>>

\* pipeline.run raises inside the try block
PipelineRaises(job_id, text) ==
    /\ wpc[job_id] = "extracting"
    /\ FailJob(job_id, Store, "extraction", text)
    /\ UNCHANGED <<clock, wsnippets, points, collection, pipeVars, callVars>>

\* pipeline.run returns: the snippets are enriched; without snippets the job is
\* completed at once; otherwise the writer is built (which may raise, outside the
\* try block) and mark_processing("Persisting") precedes writer.write.
\* _enrich_snippets assigns repo_name, repo_url and ingest_id to each snippet; the
\* Snippet model of snippet/model.py declares none of the three, and whether the
\* assignment is accepted depends on the model class in use: accepts is FALSE when
\* it raises (ValueError, outside the try block) on the first snippet.
PipelineReturns(job_id, snippets, accepts, builderText) ==
    /\ wpc[job_id] = "extracting"
    /\ LET enriched == EnrichSnippets(snippets, RepoUrlOf(job_id), RepoNameOf(job_id),
                                      job_id)
           completed == mark_completed(Store, job_id, "No snippets extracted",
                                       RepoNameOf(job_id))
           persisting == mark_processing(Store, job_id, "Persisting snippets to Qdrant",
                                         RepoNameOf(job_id), <<>>)
       IN  /\ wsnippets' = [wsnippets EXCEPT ![job_id] =
                                IF accepts THEN enriched ELSE <<>>]
           /\ IF enriched = <<>>
              THEN /\ records' = completed.records
                   /\ index' = completed.index
                   /\ last' = LogCall("mark_completed", job_id, NONE, Store, completed)
                   /\ wpc' = [wpc EXCEPT ![job_id] = "returned"]
                   /\ UNCHANGED wexc
              ELSE IF ~accepts \/ builderText # ""
              THEN /\ wpc' = [wpc EXCEPT ![job_id] = "raised"]
                   /\ wexc' = [wexc EXCEPT ![job_id] =
                                  IF ~accepts
                                  THEN [phase |-> "enrich", text |-> "no field"]
                                  ELSE [phase |-> "build", text |-> builderText]]
                   /\ UNCHANGED <<records, index, last>>
              ELSE /\ records' = persisting.records
                   /\ index' = persisting.index
                   /\ last' = LogCall("mark_processing", job_id, NONE, Store, persisting)
                   /\ wpc' = [wpc EXCEPT ![job_id] = "writing"]
                   /\ UNCHANGED wexc
    /\ UNCHANGED <<clock, points, collection, pipeVars, callVars>>

\* writer.write ends: an exception leaves process_repository as it is (the call is
\* outside the try block); otherwise mark_completed("Stored n snippets")
WriteDone(job_id, nvectors, fault) ==
    /\ wpc[job_id] = "writing"
    /\ LET w == write(points, collection, wsnippets[job_id], nvectors, fault)
           completed == mark_completed(Store, job_id, "Stored snippets in Qdrant",
                                       RepoNameOf(job_id))
       IN  /\ points' = w.points
           /\ collection' = w.collection
           /\ IF w.exc # ""
              THEN /\ wpc' = [wpc EXCEPT ![job_id] = "raised"]
                   /\ wexc' = [wexc EXCEPT ![job_id] = [phase |-> "write", text |-> w.exc]]
                   /\ UNCHANGED <<records, index, last>>
              ELSE /\ records' = completed.records
                   /\ index' = completed.index
                   /\ last' = LogCall("mark_completed", job_id, NONE, Store, completed)
                   /\ wpc' = [wpc EXCEPT ![job_id] = "returned"]
                   /\ UNCHANGED wexc
    /\ UNCHANGED <<clock, wsnippets, pipeVars, callVars>>

InitWorker == InitStoreVars /\ IdlePipeVars /\ IdleWorkerVars /\ IdleCallVars

NextWorker ==
    \E job_id \in Jobs :
        \/ \E queued \in BOOLEAN : Enqueue(job_id, queued)
        \/ WorkerBegin(job_id)
        \/ \E text \in ExceptionTexts \cup {""} : CloneDone(job_id, text)
        \/ \E text \in ExceptionTexts : PipelineRaises(job_id, text)
        \/ \E snippets \in SnippetLists(job_id, MaxSnippets), accepts \in BOOLEAN,
                 text \in {"", "boom"} :
              PipelineReturns(job_id, snippets, accepts, text)
        \/ \E nvectors \in 0..MaxSnippets, fault \in {"none", "embed", "upsert"} :
              WriteDone(job_id, nvectors, fault)

SpecWorker == InitWorker /\ [][NextWorker]_vars

\* --------------------------------------------------- process_repository claims

\* C9 as stated: whenever process_repository has raised while cloning, extracting or
\* writing to the vector index, the job's record is stored with status failed and a
\* non-empty fail_reason.
C9_RaisedMeansMarkedFailed ==
    \A j \in Jobs :
        (wpc[j] = "raised" /\ wexc[j].phase \in {"clone", "extraction", "write"}) =>
            /\ Get(Store, j) # <<>>
            /\ Get(Store, j)[1].status = STATUS_FAILED
            /\ Truthy(Get(Store, j)[1].fail_reason)

\* C10 as stated: after process_repository has returned normally for a job, the job
\* is found through the vector store: get_completed_repository returns metadata and
\* get_repository_service reports done.
C10_CompletedStaysDiscoverable ==
    \A j \in Jobs :
        wpc[j] = "returned" =>
            /\ get_completed_repository(points, j) # <<>>
            /\ get_repository_service(Store, points, j) = STATUS_DONE

\* ----------------------------------------------------- RepoStatusStore claims

MarkOps == {"mark_processing", "update_progress", "mark_completed", "mark_failed"}
StoreAfter == [records |-> records', index |-> index']
StoredStatuses == {STATUS_PENDING, STATUS_PROCESSING, STATUS_FAILED}

\* the transitions the state machine of the design lists
DesignTransitions ==
    {<<STATUS_PENDING, STATUS_PROCESSING>>, <<STATUS_PROCESSING, STATUS_PROCESSING>>,
     <<STATUS_PROCESSING, STATUS_DONE>>, <<STATUS_PROCESSING, STATUS_FAILED>>,
     <<STATUS_FAILED, STATUS_PROCESSING>>}

\* C3 as stated: whenever a store call on an existing record changes its status (the
\* status it found against the status of the record it returns), the change is one of
\* pending -> processing, processing -> processing, processing -> done,
\* processing -> failed, failed -> processing.
C3_OnlyDesignTransitions ==
    (last.exc = "none" /\ last.from # NONE /\ last.ret[1].status # last.from)
        => <<last.from, last.ret[1].status>> \in DesignTransitions

\* C3 amended: the mark_* / update_progress calls set the status whatever the current
\* one is: processing from any stored status, failed from any stored status (pending
\* included), done from any stored status, and a record that reaches done is removed,
\* so every stored status is pending, processing or failed; a record goes back to
\* pending only when create_pending overwrites it.
C3_UnguardedTransitions ==
    /\ \A id \in DOMAIN records : Get(Store, id)[1].status \in StoredStatuses
    /\ (last.exc = "none" /\ last.from # NONE) =>
         /\ last.from \in StoredStatuses
         /\ last.op \in {"mark_processing", "update_progress"}
               => last.ret[1].status = STATUS_PROCESSING
         /\ last.op = "mark_failed" => last.ret[1].status = STATUS_FAILED
         /\ last.op = "mark_completed"
               => last.ret[1].status = STATUS_DONE /\ Get(Store, last.id) = <<>>
         /\ last.op = "ensure_record" => last.ret[1].status = last.from
         /\ last.ret[1].status = STATUS_PENDING /\ last.from # STATUS_PENDING
               => last.op = "create_pending"

\* C3 witness: mark_failed has moved a pending record directly to failed
C3_PendingToFailed ==
    /\ last.op = "mark_failed" /\ last.exc = "none" /\ last.from = STATUS_PENDING
    /\ Get(Store, last.id) # <<>> /\ Get(Store, last.id)[1].status = STATUS_FAILED

\* C4: once mark_completed(id) has succeeded, get(id) is None and id is not listed by
\* list_records(), and both stay so under every call other than create_pending /
\* ensure_record on that id.
C4_CompletedStaysGone ==
    [][LET id == last'.id
           goneAfter == Get(StoreAfter, id) = <<>> /\ id \notin ListedIds(StoreAfter)
       IN  /\ (last'.op = "mark_completed" /\ last'.exc = "none") => goneAfter
           /\ (/\ last'.op \notin {"create_pending", "ensure_record"}
               /\ Get(Store, id) = <<>>)
                 => goneAfter
           /\ \A other \in Ids \ {id} :
                 Get(Store, other) = <<>> => Get(StoreAfter, other) = <<>>]_vars

\* C4 witness: mark_completed succeeded on a record that was being processed and
\* the record is gone
C4_CompletedAndGone ==
    /\ last.op = "mark_completed" /\ last.exc = "none" /\ last.from = STATUS_PROCESSING
    /\ Get(Store, last.id) = <<>>

\* C5: after mark_failed(id, reason) on an existing record the record is still stored
\* and listed, with status failed, progress None and fail_reason = reason.
C5_FailedRecordKept ==
    (last.op = "mark_failed" /\ last.exc = "none") =>
        /\ Get(Store, last.id) # <<>>
        /\ Get(Store, last.id)[1].status = STATUS_FAILED
        /\ Get(Store, last.id)[1].progress = <<>>
        /\ Get(Store, last.id)[1].fail_reason = last.reason
        /\ last.id \in ListedIds(Store)

\* C5 witness: mark_failed on a record that was processing with a progress value
C5_FailedFromProcessing ==
    /\ last.op = "mark_failed" /\ last.exc = "none" /\ last.from = STATUS_PROCESSING
    /\ last.reason = "boom"
    /\ Get(Store, last.id) # <<>> /\ Get(Store, last.id)[1].fail_reason = "boom"

ValidProgress(p) == p = <<>> \/ (p[1] >= 0 /\ p[1] <= 100)

\* C6: every stored progress, and every progress returned by get, is None or an
\* integer in [0,100], whatever progress arguments were passed.
C6_ProgressClamped ==
    \A id \in DOMAIN records :
        /\ ValidProgress(records[id].progress)
        /\ ValidProgress(Get(Store, id)[1].progress)

\* C6 witness: a call passed progress 101 and the record holds 100
C6_ClampedFromAbove ==
    /\ last.op \in {"mark_processing", "update_progress"} /\ last.exc = "none"
    /\ last.progress = <<101>>
    /\ Get(Store, last.id)[1].progress = <<100>>

\* C7 as stated: a mark_processing / update_progress call on a record that is pending
\* or processing never lowers its stored progress, and the progress of a stored
\* record becomes None only through mark_failed.
C7_ProgressNeverDecreases ==
    [][\A id \in Ids :
        (Get(Store, id) # <<>> /\ Get(StoreAfter, id) # <<>> /\ last'.id = id) =>
            /\ (/\ last'.op \in {"mark_processing", "update_progress"}
                /\ Get(Store, id)[1].status \in {STATUS_PENDING, STATUS_PROCESSING}
                /\ Get(Store, id)[1].progress # <<>>)
                  => /\ Get(StoreAfter, id)[1].progress # <<>>
                     /\ Get(StoreAfter, id)[1].progress[1] >= Get(Store, id)[1].progress[1]
            /\ (Get(Store, id)[1].progress # <<>> /\ Get(StoreAfter, id)[1].progress = <<>>)
                  => last'.op = "mark_failed"]_vars

\* C8: mark_processing, update_progress, mark_completed and mark_failed on an id
\* without a stored record raise KeyError and leave records and index unchanged.
C8_MissingRecordRaises ==
    [][(last'.op \in MarkOps /\ Get(Store, last'.id) = <<>>)
          => last'.exc = "KeyError" /\ records' = records /\ index' = index]_vars

\* C8 witness: a mark call raised KeyError while another record is stored
C8_KeyErrorSeen ==
    /\ last.op \in MarkOps /\ last.exc = "KeyError" /\ last.from = NONE
    /\ Get(Store, last.id) = <<>> /\ DOMAIN records # {}

\* C40 as stated: a stored record has a fail_reason other than None only if its
\* status is failed; a pending or processing record carries no failure reason.
C40_ReasonOnlyWhenFailed ==
    \A id \in DOMAIN records :
        Get(Store, id)[1].fail_reason # NONE => Get(Store, id)[1].status = STATUS_FAILED


\* ---------------------------------------------------------------- chunker

\* longest text given to split_text, and largest max_chunk_size
MaxTextLen == 5
MaxChunkSize == 3

\* characters of the texts: a word character, a closing brace, a line feed
Alphabet == {"x", "}", "\n"}
Texts == UNION {[1..n -> Alphabet] : n \in 0..MaxTextLen}

\* "".join(pieces)
RECURSIVE Join(_)
Join(pieces) == IF pieces = <<>> THEN <<>> ELSE Head(pieces) \o Join(Tail(pieces))

\* seq[a:b] with Python's 0-based, end-exclusive indices (0 <= a)
Slice(seq, a, b) == SubSeq(seq, a + 1, Min(b, Len(seq)))

\* str.splitlines(keepends=True): each line keeps its line feed
RECURSIVE SplitLines(_)
SplitLines(text) ==
    IF text = <<>> THEN <<>>
    ELSE LET ends == {i \in 1..Len(text) : text[i] = "\n"}
             k == IF ends = {} THEN Len(text)
                  ELSE CHOOSE i \in ends : \A j \in ends : i <= j
         IN  <<SubSeq(text, 1, k)>> \o SplitLines(SubSeq(text, k + 1, Len(text)))

EndsWith(line, c) == line # <<>> /\ line[Len(line)] = c
StartsWith(line, prefix) ==
    Len(line) >= Len(prefix) /\ SubSeq(line, 1, Len(prefix)) = prefix

\* _BOUNDARY_HINT.match: an empty (all blank) line or a bare comment divider; the
\* other alternatives (class/def keywords, a C style signature) need letters or a
\* parenthesis, which no text over Alphabet holds
BoundaryHint(line) ==
    \/ LStrip(line) = <<>>
    \/ RStrip(LStrip(line)) \in {<<"#">>, <<"/", "/">>}

\* default_boundary_score
default_boundary_score(previous_line, next_line) ==
    LET stripped_prev == RStrip(previous_line)
        stripped_next == LStrip(next_line)
        fence == <<"backquote", "backquote", "backquote">>
    IN  (IF stripped_prev = <<>> THEN 2 ELSE 0)
        + (IF EndsWith(stripped_prev, "}") THEN 3 ELSE 0)
        + (IF EndsWith(stripped_prev, ";") THEN 2 ELSE 0)
        + (IF StartsWith(stripped_prev, <<"/", "/">>) \/ StartsWith(stripped_prev, <<"#">>)
           THEN 1 ELSE 0)
        + (IF BoundaryHint(stripped_next) THEN 3 ELSE 0)
        + (IF StartsWith(stripped_prev, fence) \/ StartsWith(stripped_next, fence)
           THEN 4 ELSE 0)

\* the raw slicing cut off after its first piece
SplitLargeLineFirstPiece(line, max_chunk_size) == <<Slice(line, 0, max_chunk_size)>>
\* the raw slicing left out
SplitLargeLineWhole(line, max_chunk_size) == <<line>>

\* _split_large_line: line[start : start + max_chunk_size] for start = 0, max, 2 max..
SplitLargeLine(line, max_chunk_size) ==
    [k \in 1..((Len(line) + max_chunk_size - 1) \div max_chunk_size) |->
        Slice(line, (k - 1) * max_chunk_size, k * max_chunk_size)]

\* a loop that stays on the oversized line it has just sliced
BeforeLargeLine(idx) == idx

\* "start = idx + 1" once the pieces of the oversized line at idx are appended
PastLargeLine(idx) == idx + 1

\* the for loop of split_text from index idx on, for the chunk that begins at line
\* start: the chunks it appends, the new start, and whether it leaves the while
\* loop (the for-else). best_cut is <<>> for None.
RECURSIVE ScanLines(_, _, _, _, _, _, _, _)
ScanLines(lines, max_chunk_size, start, idx, current_size, best_cut, best_cut_size, best_score) ==
    IF idx >= Len(lines)
    THEN [append |-> IF Join(Slice(lines, start, Len(lines))) # <<>>
                     THEN <<Join(Slice(lines, start, Len(lines)))>> ELSE <<>>,
          start |-> start, stop |-> TRUE]
    ELSE
    LET line == lines[idx + 1]
        line_length == Len(line)
        size == current_size + line_length
        next_line == IF idx + 1 < Len(lines) THEN lines[idx + 2] ELSE <<>>
        score == default_boundary_score(line, next_line)
        cut == IF best_cut # <<>> /\ best_cut[1] # 0 /\ best_cut[1] > start
               THEN best_cut[1] ELSE idx
        cut_index == IF cut = start THEN start + 1 ELSE cut
    IN  IF line_length > max_chunk_size
        THEN IF idx > start /\ Join(Slice(lines, start, idx)) # <<>>
             THEN [append |-> <<Join(Slice(lines, start, idx))>>, start |-> idx,
                   stop |-> FALSE]
             ELSE [append |-> SplitLargeLine(line, max_chunk_size),
                   start |-> PastLargeLine(idx), stop |-> FALSE]
        ELSE IF size <= max_chunk_size
        THEN IF score > best_score \/ (score = best_score /\ size > best_cut_size)
             THEN ScanLines(lines, max_chunk_size, start, idx + 1, size, <<idx + 1>>,
                            size, score)
             ELSE ScanLines(lines, max_chunk_size, start, idx + 1, size, best_cut,
                            best_cut_size, best_score)
        ELSE [append |-> IF Join(Slice(lines, start, cut_index)) # <<>>
                         THEN <<Join(Slice(lines, start, cut_index))>> ELSE <<>>,
              start |-> cut_index, stop |-> FALSE]

\* the while loop of split_text
RECURSIVE CutChunks(_, _, _, _)
CutChunks(lines, max_chunk_size, start, chunks) ==
    IF start >= Len(lines) THEN chunks
    ELSE LET step == ScanLines(lines, max_chunk_size, start, start, 0, <<>>, -1, -1) IN
         IF step.stop THEN chunks \o step.append
         ELSE CutChunks(lines, max_chunk_size, step.start, chunks \o step.append)

\* the closing loop of split_text: a piece over the limit is sliced
RECURSIVE Normalize(_, _)
Normalize(chunks, max_chunk_size) ==
    IF chunks = <<>> THEN <<>>
    ELSE (IF Len(Head(chunks)) <= max_chunk_size THEN <<Head(chunks)>>
          ELSE SplitLargeLine(Head(chunks), max_chunk_size))
         \o Normalize(Tail(chunks), max_chunk_size)

\* split_text
split_text(text, max_chunk_size) ==
    IF Len(text) <= max_chunk_size THEN <<text>>
    ELSE Normalize(CutChunks(SplitLines(text), max_chunk_size, 0, <<>>), max_chunk_size)

\* FileData
FileData(path, relative_path, content, size, extension) ==
    [path |-> path, relative_path |-> relative_path, content |-> content,
     size |-> size, extension |-> extension]

\* the chunks of the content, each wrapped in a FileData of the same file
ChunkedFileData(file_data, max_chunk_size) ==
    LET chunks == split_text(file_data.content, max_chunk_size) IN
    [i \in 1..Len(chunks) |->
        FileData(file_data.path, file_data.relative_path, chunks[i], Len(chunks[i]),
                 file_data.extension)]

\* every FileData wrapped anew, whatever its size
chunk_file_data_rewraps(file_data, max_chunk_size) ==
    ChunkedFileData(file_data, max_chunk_size)

\* chunk_file_data
chunk_file_data(file_data, max_chunk_size) ==
    IF file_data.size <= max_chunk_size THEN <<file_data>>
    ELSE ChunkedFileData(file_data, max_chunk_size)

\* ------------------------------------ SpecChunker: one call of the chunker

\* the arguments of the call: a text, a limit, and the size field of the FileData that
\* holds the text (its length, or one more)
InitChunker ==
    /\ InitStoreVars /\ IdlePipeVars /\ IdleWorkerVars
    /\ \E text \in Texts, max_chunk_size \in 1..MaxChunkSize, extra \in {0, 1} :
          call = [op |-> "args", text |-> text, max_chunk_size |-> max_chunk_size,
                  file_data |-> FileData("/r/f.py", "f.py", text, Len(text) + extra,
                                         ".py")]

SplitText ==
    /\ call.op = "args"
    /\ call' = [call EXCEPT !.op = "split_text"] @@
               [chunks |-> split_text(call.text, call.max_chunk_size)]
    /\ UNCHANGED <<storeVars, pipeVars, workerVars>>

ChunkFileData ==
    /\ call.op = "args"
    /\ call' = [call EXCEPT !.op = "chunk_file_data"] @@
               [chunked |-> chunk_file_data(call.file_data, call.max_chunk_size)]
    /\ UNCHANGED <<storeVars, pipeVars, workerVars>>

NextChunker == SplitText \/ ChunkFileData

SpecChunker == InitChunker /\ [][NextChunker]_vars

\* a line of the text is longer than the limit
HasOversizedLine ==
    \E i \in 1..Len(SplitLines(call.text)) :
        Len(SplitLines(call.text)[i]) > call.max_chunk_size

\* C11: the chunks split_text returns, concatenated in order, are the input text,
\* whatever the text and the limit, a line longer than the limit included.
C11_ChunksRoundTrip ==
    call.op = "split_text" => Join(call.chunks) = call.text

\* a text cut both at a line boundary and inside an oversized line
C11_CutInsideAndBetweenLines ==
    /\ call.op = "split_text"
    /\ HasOversizedLine
    /\ Len(SplitLines(call.text)) >= 2
    /\ Len(call.chunks) >= 3

\* C12: every chunk split_text returns is at most max_chunk_size long; the pieces
\* of an oversized line are no exception, each of them is within the limit too.
C12_ChunksWithinLimit ==
    call.op = "split_text" =>
        \A i \in 1..Len(call.chunks) : Len(call.chunks[i]) <= call.max_chunk_size

\* an oversized line was sliced
C12_OversizedLineSliced ==
    /\ call.op = "split_text"
    /\ HasOversizedLine
    /\ Len(call.chunks) >= 2

\* C13: a text at or under the limit comes back as one chunk equal to it, and a
\* FileData whose size is at or under the limit comes back alone and unchanged.
C13_SmallInputUnchanged ==
    /\ (call.op = "split_text" /\ Len(call.text) <= call.max_chunk_size)
          => call.chunks = <<call.text>>
    /\ (call.op = "chunk_file_data" /\ call.file_data.size <= call.max_chunk_size)
          => call.chunked = <<call.file_data>>

\* a FileData exactly at the limit, with a size that is not its content's length
C13_FileDataAtLimit ==
    /\ call.op = "chunk_file_data"
    /\ call.file_data.size = call.max_chunk_size
    /\ call.file_data.size # Len(call.file_data.content)
    /\ call.chunked = <<call.file_data>>

\* ------------------ SpecSplitLoop: split_text, a step for each pass of its while loop

\* most passes of the while loop followed
MaxIterations == 12

\* the lines longer than the limit
Oversized(lines, max_chunk_size) == {i \in 1..Len(lines) : Len(lines[i]) > max_chunk_size}

SplitLoopFrame == UNCHANGED <<storeVars, pipeVars, workerVars>>

\* split_text(text, max_chunk_size=max_chunk_size) up to the while loop: a text within
\* the limit is returned at once
EnterSplitText ==
    /\ call.op = "args"
    /\ call' = IF Len(call.text) <= call.max_chunk_size
               THEN [op |-> "split_returned", text |-> call.text,
                     max_chunk_size |-> call.max_chunk_size, lines |-> <<>>,
                     start |-> 0, previous_start |-> 0, iterations |-> 0,
                     broke |-> FALSE, chunks |-> <<call.text>>]
               ELSE [op |-> "split_loop", text |-> call.text,
                     max_chunk_size |-> call.max_chunk_size,
                     lines |-> SplitLines(call.text), start |-> 0,
                     previous_start |-> 0, iterations |-> 0, broke |-> FALSE,
                     chunks |-> <<>>]
    /\ SplitLoopFrame

\* one pass of "while start < len(lines)": the for loop runs until it breaks; broke
\* says that it ended in its else branch, which leaves the while loop
WhilePass ==
    /\ call.op = "split_loop"
    /\ ~call.broke
    /\ call.start < Len(call.lines)
    /\ call.iterations < MaxIterations
    /\ LET step == ScanLines(call.lines, call.max_chunk_size, call.start, call.start,
                             0, <<>>, -1, -1)
       IN  call' = [call EXCEPT !.start = step.start, !.previous_start = call.start,
                                !.iterations = @ + 1, !.broke = step.stop,
                                !.chunks = @ \o step.append]
    /\ SplitLoopFrame

\* the while loop is left; the closing loop slices the pieces over the limit
LeaveLoop ==
    /\ call.op = "split_loop"
    /\ call.broke \/ call.start >= Len(call.lines)
    /\ call' = [call EXCEPT !.op = "split_returned",
                            !.chunks = Normalize(@, call.max_chunk_size)]
    /\ SplitLoopFrame

NextSplitLoop == EnterSplitText \/ WhilePass \/ LeaveLoop

SpecSplitLoop == InitChunker /\ [][NextSplitLoop]_vars

\* C38: every pass of the while loop of split_text moves start forward unless it is
\* the pass that leaves the loop, every chunk emitted is non-empty, and there are at
\* most as many passes as lines plus oversized lines; so split_text terminates for
\* every text and every max_chunk_size >= 1.
C38_EveryPassAdvances ==
    call.op \in {"split_loop", "split_returned"}
    => /\ call.iterations > 0 => (call.start > call.previous_start \/ call.broke)
       /\ \A i \in 1..Len(call.chunks) : call.chunks[i] # <<>> \/ call.text = <<>>
       /\ call.iterations
             <= Len(call.lines) + Cardinality(Oversized(call.lines, call.max_chunk_size))
       /\ call.iterations < MaxIterations

\* C38 witness: split_text has returned after three passes, one of them over an
\* oversized line
C38_ThreePassesWithLargeLine ==
    /\ call.op = "split_returned"
    /\ call.iterations = 3
    /\ Oversized(call.lines, call.max_chunk_size) # {}

\* the size of lines[s+1 .. j], the lines a chunk that starts after line s and is
\* cut at the end of line j holds
SizeBetween(lines, s, j) == Len(Join(SubSeq(lines, s + 1, j)))

\* the boundary score of the end of line j
ScoreAt(lines, j) ==
    default_boundary_score(lines[j], IF j < Len(lines) THEN lines[j + 1] ELSE <<>>)

\* the line ends after line s at which a chunk that starts after line s is within
\* the budget
WithinBudget(lines, max_chunk_size, s) ==
    {j \in (s + 1)..Len(lines) : SizeBetween(lines, s, j) <= max_chunk_size}

\* the line end of the highest score among candidates, the largest one on a tie
BestCut(lines, candidates) ==
    CHOOSE j \in candidates :
        \A k \in candidates :
            \/ ScoreAt(lines, k) < ScoreAt(lines, j)
            \/ (ScoreAt(lines, k) = ScoreAt(lines, j) /\ k <= j)

\* the chunks C37 describes for the lines after line s: a line longer than the
\* budget is sliced; lines that all fit make the last chunk; otherwise the chunk
\* ends at the best line end within the budget
RECURSIVE BestCutChunks(_, _, _)
BestCutChunks(lines, max_chunk_size, s) ==
    IF s >= Len(lines) THEN <<>>
    ELSE IF Len(lines[s + 1]) > max_chunk_size
    THEN SplitLargeLine(lines[s + 1], max_chunk_size)
         \o BestCutChunks(lines, max_chunk_size, s + 1)
    ELSE IF Len(lines) \in WithinBudget(lines, max_chunk_size, s)
    THEN <<Join(SubSeq(lines, s + 1, Len(lines)))>>
    ELSE LET cut == BestCut(lines, WithinBudget(lines, max_chunk_size, s)) IN
         <<Join(SubSeq(lines, s + 1, cut))>> \o BestCutChunks(lines, max_chunk_size, cut)

\* C37 as stated: whenever adding a line would take the chunk over max_chunk_size,
\* split_text cuts at the line end of the highest boundary score among the line ends
\* within the budget since the start of the chunk (the largest on a tie), and it
\* cuts inside a line only when that line alone is longer than max_chunk_size.
C37_CutAtBestBoundary ==
    (call.op = "split_text" /\ Len(call.text) > call.max_chunk_size)
    => call.chunks = BestCutChunks(SplitLines(call.text), call.max_chunk_size, 0)


\* ------------------------------------------------------------- file loader

\* most files in a repository, and largest max_file_size argument
MaxFiles == 3
MaxFileSizeArg == 5

\* FileLoader.DEFAULT_MAX_FILE_SIZE (500 * 1024) and DEFAULT_MAX_CHUNK_SIZE
\* (1_800_000), scaled down: a size of 1 here stands for about 500 KB, so that the
\* texts of the model reach both thresholds; their order is the source's.
DEFAULT_MAX_FILE_SIZE == 1
DEFAULT_MAX_CHUNK_SIZE == 3

\* a file on disk: its text, its size in bytes (a character takes one byte or more,
\* so st_size >= len(content)), and what the checks of the loader find:
\* "ok", "nomatch" (no pattern matches), "test" (a test file name), "unreadable"
\* (stat or open fails), "vanishes" (readable when detected, not when loaded)
DiskFile(content, extra, kind) ==
    [content |-> content, st_size |-> Len(content) + extra, kind |-> kind]

SmallContent == <<"x">>
LargeContent == [i \in 1..(DEFAULT_MAX_CHUNK_SIZE + 1) |-> IF i % 2 = 1 THEN "x" ELSE "\n"]

DiskFiles ==
    {DiskFile(c, e, "ok") : c \in {SmallContent, LargeContent}, e \in {0, 1}}
    \cup {DiskFile(c, 0, k) : c \in {SmallContent, LargeContent},
                              k \in {"nomatch", "test", "unreadable", "vanishes"}}

Repositories == UNION {[1..n -> DiskFiles] : n \in 0..MaxFiles}

\* FileLoader.__init__: max_file_size is <<>> for None
FileLoaderInit(max_file_size, exclude_tests) ==
    LET size == IF max_file_size = <<0>> THEN <<>> ELSE max_file_size IN
    IF size = <<>>
    THEN [max_file_size |-> DEFAULT_MAX_FILE_SIZE,
          max_chunk_size |-> DEFAULT_MAX_CHUNK_SIZE, exclude_tests |-> exclude_tests]
    ELSE [max_file_size |-> size[1],
          max_chunk_size |-> Max(DEFAULT_MAX_CHUNK_SIZE, size[1]),
          exclude_tests |-> exclude_tests]

\* FileLoader._should_include_file
ShouldIncludeFile(loader, file) ==
    IF file.kind = "nomatch" THEN FALSE
    ELSE IF file.kind = "unreadable" \/ file.st_size > loader.max_file_size THEN FALSE
    ELSE IF loader.exclude_tests /\ file.kind = "test" THEN FALSE
    ELSE TRUE

\* FileLoader.detect_files on a directory: the indices of the files that qualify
RECURSIVE DetectFrom(_, _, _)
DetectFrom(loader, repo, i) ==
    IF i > Len(repo) THEN <<>>
    ELSE (IF ShouldIncludeFile(loader, repo[i]) THEN <<i>> ELSE <<>>)
         \o DetectFrom(loader, repo, i + 1)
detect_files(loader, repo) == DetectFrom(loader, repo, 1)

RelativePath(i) == <<"src", i>>

\* the loop of load_files over the detected files
RECURSIVE LoadFrom(_, _, _)
LoadFrom(loader, repo, infos) ==
    IF infos = <<>> THEN <<>>
    ELSE LET i == Head(infos)
             content == repo[i].content
             file_data == FileData(<<"/repo", i>>, RelativePath(i), content,
                                   Len(content), ".py")
         IN  (IF repo[i].kind = "vanishes" THEN <<>>
              ELSE IF file_data.size > loader.max_chunk_size
              THEN chunk_file_data(file_data, loader.max_chunk_size)
              ELSE <<file_data>>)
             \o LoadFrom(loader, repo, Tail(infos))

\* FileLoader.load_files
load_files(loader, repo) == LoadFrom(loader, repo, detect_files(loader, repo))

\* ------------------------------ SpecLoader: one load of a repository on disk

InitLoader ==
    /\ InitStoreVars /\ IdlePipeVars /\ IdleWorkerVars
    /\ \E repo \in Repositories, exclude_tests \in BOOLEAN,
          max_file_size \in {<<>>} \cup {<<n>> : n \in 0..MaxFileSizeArg} :
          call = [op |-> "loader", repo |-> repo, max_file_size |-> max_file_size,
                  loader |-> FileLoaderInit(max_file_size, exclude_tests)]

\* load_files(path), and the total_files statistic ExtractionPipeline.run derives
\* from its result
LoadFiles ==
    /\ call.op = "loader"
    /\ LET files_data == load_files(call.loader, call.repo) IN
       call' = [call EXCEPT !.op = "load_files"] @@
               [files_data |-> files_data, total_files |-> Len(files_data)]
    /\ UNCHANGED <<storeVars, pipeVars, workerVars>>

NextLoader == LoadFiles

SpecLoader == InitLoader /\ [][NextLoader]_vars

\* the file qualifies and the size configuration admits it
Admitted(loader, file) == file.kind = "ok" /\ file.st_size <= loader.max_file_size

\* C14 as stated: when a repository of three qualifying files, one of them larger
\* than the default chunk threshold, is loaded with a size configuration that admits
\* all three, the large file comes back as at least two chunks sharing its relative
\* path and total_files counts the chunks (at least four).
C14_OversizedFileChunked ==
    (/\ call.op = "load_files"
     /\ Len(call.repo) = 3
     /\ \A i \in 1..3 : Admitted(call.loader, call.repo[i])
     /\ Cardinality({i \in 1..3 : Len(call.repo[i].content) > DEFAULT_MAX_CHUNK_SIZE}) = 1)
    => /\ \A i \in 1..3 :
             Len(call.repo[i].content) > DEFAULT_MAX_CHUNK_SIZE =>
                Cardinality({k \in 1..Len(call.files_data) :
                    call.files_data[k].relative_path = RelativePath(i)}) >= 2
       /\ call.total_files >= 4

\* C27 as stated: a FileLoader constructed with max_file_size = 0 has the size cap
\* disabled, so that every file that matches the patterns, is readable and is not an
\* excluded test file is loaded whatever its size.
C27_ZeroDisablesSizeCap ==
    (call.op = "load_files" /\ call.max_file_size = <<0>>)
    => \A i \in 1..Len(call.repo) :
          call.repo[i].kind = "ok" =>
             \E k \in 1..Len(call.files_data) :
                call.files_data[k].relative_path = RelativePath(i)


\* ------------------------------------------ vector index reader against a client

\* most scroll calls the index client answers within one reader operation
MaxScroll == 4

\* what a call of the index or embedding client does: it raises (raises names the
\* exception class, "error" for any other class) or returns value
Raise(exc, value) == [raises |-> exc, value |-> value]
Return(value) == [raises |-> "", value |-> value]

\* payloads of stored points
JobPayload(ingest_id) ==
    [ingest_id |-> ingest_id,
     repo_url |-> IF ingest_id = "job-a" THEN "https://example.com/job-a"
                  ELSE "https://example.com/job-b",
     repo_name |-> ingest_id, repo |-> NONE]
Pa == JobPayload("job-a")
Pb == JobPayload("job-b")
\* a point written without an ingest id
Pn == [ingest_id |-> NONE, repo_url |-> NONE, repo_name |-> NONE, repo |-> "legacy"]
\* a point whose payload names no repository URL
Pu == [ingest_id |-> "job-b", repo_url |-> "", repo_name |-> "job-b", repo |-> NONE]

\* a scroll result: (points, next_page_offset); next_page is <<>> for None
Page(payloads, next_page) == [points |-> payloads, next_page |-> next_page]
EmptyPage == Page(<<>>, <<>>)
ScrollPages ==
    {EmptyPage, Page(<<Pa, Pb>>, <<>>), Page(<<Pa>>, <<1>>), Page(<<Pb, Pa>>, <<>>),
     Page(<<Pn, Pa>>, <<1>>), Page(<<Pn>>, <<>>)}
ScrollResponses ==
    {Return(page) : page \in ScrollPages}
    \cup {Raise(e, EmptyPage) : e \in {"TypeError", "AssertionError", "AttributeError",
                                      "error"}}
FacetResponses ==
    {Raise("AttributeError", <<>>), Raise("error", <<>>), Return(<<>>),
     Return(<<"job-a", "", "job-b", "job-c">>)}
GroupResponses == {Raise("error", <<>>), Return(<<>>), Return(<<"job-b">>)}
\* answers of the scroll of _load_completed_repo_metadata
LoadResponses == ScrollResponses \cup {Return(Page(<<Pu>>, <<>>))}
CountResponses == {Raise("error", <<>>), Return(<<>>), Return(<<2>>)}

\* _facet_ingest_ids
FacetIngestIds(response) ==
    IF response.raises # "" THEN <<>> ELSE SelectSeq(response.value, Truthy)

\* _group_ingest_ids
GroupIngestIds(response) ==
    IF response.raises # "" THEN <<>> ELSE SelectSeq(response.value, Truthy)

\* a loop over the payloads of a page that does not look at the ids seen so far
RECURSIVE CollectIngestIdsUnseen(_, _, _)
CollectIngestIdsUnseen(payloads, ingest_ids, limit) ==
    IF payloads = <<>> THEN [ingest_ids |-> ingest_ids, full |-> FALSE]
    ELSE LET ingest_id == Head(payloads).ingest_id
         IN  IF ~Truthy(ingest_id)
             THEN CollectIngestIdsUnseen(Tail(payloads), ingest_ids, limit)
             ELSE IF 0 < limit /\ limit <= Len(ingest_ids) + 1
             THEN [ingest_ids |-> Append(ingest_ids, ingest_id), full |-> TRUE]
             ELSE CollectIngestIdsUnseen(Tail(payloads), Append(ingest_ids, ingest_id),
                                         limit)

\* the loop of _scroll_ingest_ids over the payloads of one page
RECURSIVE CollectIngestIds(_, _, _)
CollectIngestIds(payloads, ingest_ids, limit) ==
    IF payloads = <<>> THEN [ingest_ids |-> ingest_ids, full |-> FALSE]
    ELSE LET ingest_id == Head(payloads).ingest_id
             seen == {ingest_ids[k] : k \in 1..Len(ingest_ids)}
         IN  IF ~Truthy(ingest_id) \/ ingest_id \in seen
             THEN CollectIngestIds(Tail(payloads), ingest_ids, limit)
             ELSE IF 0 < limit /\ limit <= Len(ingest_ids) + 1
             THEN [ingest_ids |-> Append(ingest_ids, ingest_id), full |-> TRUE]
             ELSE CollectIngestIds(Tail(payloads), Append(ingest_ids, ingest_id), limit)

\* _first_payload: <<>> for None
FirstPayload(page) == IF page.points = <<>> THEN <<>> ELSE <<Head(page.points)>>

RepoMetadata(ingest_id, payload, snippet_count) ==
    [ingest_id |-> ingest_id, repo_url |-> CoerceRepoUrl(payload),
     repo_name |-> CoerceRepoName(payload), snippet_count |-> snippet_count]

\* _count_snippets_for_ingest and count_snippets_for_repo: <<>> for None
CountSnippets(response) == IF response.raises # "" THEN <<>> ELSE response.value

\* query texts (as characters) and limits given to query
QueryTexts == {<<>>, <<" ">>, <<"q">>, <<" ", "q", "\n">>}
QueryLimits == {-1, 0, 1, 5}

\* points a search returns: with all required snippet fields, or with one missing
SearchResults == {<<>>, <<"full">>, <<"partial", "full">>}
EmbedResponses == {Raise("error", 0), Return(0), Return(1)}
MmrResponses ==
    {Raise("AttributeError", <<>>), Raise("error", <<>>)}
    \cup {Return(r) : r \in SearchResults}
SearchResponses == {Raise("error", <<>>)} \cup {Return(r) : r \in SearchResults}

\* the guard of query without its limit test
QueryShortCircuitsOnBlankOnly(query_text, limit) == RStrip(LStrip(query_text)) = <<>>

\* query returns [] at once: not query_text.strip(), or limit <= 0
QueryShortCircuits(query_text, limit) ==
    RStrip(LStrip(query_text)) = <<>> \/ limit <= 0

\* repo_name / language arguments of query: None, blank, padded, plain
QueryFilters == {<<NONE, NONE>>, <<" org/repo ", NONE>>, <<" ", "python">>}

\* str.strip() on the filter arguments
StripArg(s) == IF s = " " THEN "" ELSE IF s = " org/repo " THEN "org/repo" ELSE s

\* _combine_filters: the must-conditions, <<>> for None
CombineFilters(repo_name, language) ==
    (IF Truthy(repo_name) /\ Truthy(StripArg(repo_name))
     THEN <<[key |-> "repo_name", value |-> StripArg(repo_name)]>> ELSE <<>>)
    \o (IF Truthy(language) /\ Truthy(StripArg(language))
        THEN <<[key |-> "language", value |-> StripArg(language)]>> ELSE <<>>)

\* the arguments of client.mmr
MmrRequest(c) ==
    [method |-> "mmr", query_vector |-> c.query_vector, filter |-> c.filter,
     limit |-> c.limit]

\* a fallback search that drops the filter
SearchRequestWithoutFilter(c) ==
    [method |-> "search", query_vector |-> c.query_vector, filter |-> <<>>,
     limit |-> c.limit]

\* the arguments of client.search
SearchRequest(c) ==
    [method |-> "search", query_vector |-> c.query_vector, filter |-> c.filter,
     limit |-> c.limit]

\* _parse_results: points without a required field are skipped
ParseResults(scored) == SelectSeq(scored, LAMBDA point : point = "full")

\* -------- SpecReader: one reader operation, a step for each client call it makes

\* a reader operation under way: pc is the client call it waits for ("returned" and
\* "raised" once it has ended), calls the client methods called so far, outcomes
\* the exception each discovery call raised ("" for none), scrolled the answers of
\* client.scroll so far, ingest_ids the ids discovered, todo the ids whose metadata
\* is still to load, loaded the payload (<<>> for none) found for each id whose
\* load has ended
ReaderStart(op, pc, query_text, limit, todo) ==
    [op |-> op, pc |-> pc, query_text |-> query_text, limit |-> limit,
     exclude_ids |-> {}, calls |-> <<>>, outcomes |-> <<>>, scrolled |-> <<>>,
     ingest_ids |-> <<>>, todo |-> todo, loaded |-> <<>>, result |-> <<>>, exc |-> "",
     filter |-> <<>>, query_vector |-> <<>>, sent |-> <<>>, answers |-> <<>>]

ReaderFrame == UNCHANGED <<storeVars, pipeVars, workerVars>>

ScrollCalls == Len(SelectSeq(call.calls, LAMBDA m : m = "scroll"))

\* the operation ends by returning result / by letting exc reach its caller
Returned(c, result) == [c EXCEPT !.pc = "returned", !.result = result]
Raised(c, exc) == [c EXCEPT !.pc = "raised", !.exc = exc]

\* the metadata loop without its test of exclude_ids
ListIdsIgnoringExclusions(c, ingest_ids) ==
    LET todo == SelectSeq(ingest_ids, Truthy) IN
    IF todo = <<>> THEN Returned([c EXCEPT !.ingest_ids = ingest_ids], <<>>)
    ELSE [c EXCEPT !.pc = "load", !.ingest_ids = ingest_ids, !.todo = todo]

\* list_completed_repositories once _list_completed_ingest_ids has returned
\* ingest_ids: nothing to list, or the metadata loop starts (ids that are empty or
\* excluded are passed over without a client call)
ListIds(c, ingest_ids) ==
    LET todo == SelectSeq(ingest_ids, LAMBDA x : Truthy(x) /\ x \notin c.exclude_ids) IN
    IF todo = <<>> THEN Returned([c EXCEPT !.ingest_ids = ingest_ids], <<>>)
    ELSE [c EXCEPT !.pc = "load", !.ingest_ids = ingest_ids, !.todo = todo]

\* list_completed_repositories(limit=limit, exclude_ids=exclude_ids):
\* _list_completed_ingest_ids begins
StartList(limit, exclude_ids) ==
    /\ call.op = "none"
    /\ call' = [ReaderStart("list_completed_repositories", "facet", <<>>,
                            IF limit <= 0 THEN 100 ELSE limit, <<>>)
                  EXCEPT !.exclude_ids = exclude_ids]
    /\ ReaderFrame

\* client.facet answers
Facet(response) ==
    /\ call.op = "list_completed_repositories" /\ call.pc = "facet"
    /\ LET c == [call EXCEPT !.calls = Append(@, "facet"),
                             !.outcomes = Append(@, response.raises)]
       IN  call' = IF FacetIngestIds(response) # <<>>
                   THEN ListIds(c, FacetIngestIds(response))
                   ELSE [c EXCEPT !.pc = "group"]
    /\ ReaderFrame

\* client.query_points_groups answers
Group(response) ==
    /\ call.op = "list_completed_repositories" /\ call.pc = "group"
    /\ LET c == [call EXCEPT !.calls = Append(@, "query_points_groups"),
                             !.outcomes = Append(@, response.raises)]
       IN  call' = IF GroupIngestIds(response) # <<>>
                   THEN ListIds(c, GroupIngestIds(response))
                   ELSE [c EXCEPT !.pc = "scroll"]
    /\ ReaderFrame

\* client.scroll answers within _scroll_ingest_ids; at pc "scroll_retry" the call
\* is the second one, made in the TypeError handler with scroll_filter=None
ScrollIds(response) ==
    /\ call.op = "list_completed_repositories"
    /\ call.pc \in {"scroll", "scroll_retry"}
    /\ ScrollCalls < MaxScroll
    /\ LET c == [call EXCEPT !.calls = Append(@, "scroll"),
                             !.outcomes = Append(@, response.raises),
                             !.scrolled = Append(@, response)]
           page == response.value
           collected == CollectIngestIds(page.points, call.ingest_ids, call.limit)
       IN  call' =
             IF response.raises # ""
             THEN IF call.pc = "scroll_retry" THEN Raised(c, response.raises)
                  ELSE IF response.raises = "TypeError"
                  THEN [c EXCEPT !.pc = "scroll_retry"]
                  ELSE ListIds(c, call.ingest_ids)
             ELSE IF page.points = <<>> THEN ListIds(c, call.ingest_ids)
             ELSE IF collected.full \/ page.next_page = <<>>
             THEN ListIds(c, collected.ingest_ids)
             ELSE [c EXCEPT !.pc = "scroll", !.ingest_ids = collected.ingest_ids]
    /\ ReaderFrame

\* client.scroll answers within _load_completed_repo_metadata for the first id of
\* todo; at pc "load_retry" the call is the second one, made in the handler of
\* TypeError and AssertionError with scroll_filter=
LoadMetadata(response) ==
    /\ call.op \in {"list_completed_repositories", "get_completed_repository"}
    /\ call.pc \in {"load", "load_retry"}
    /\ ScrollCalls < MaxScroll
    /\ LET ingest_id == Head(call.todo)
           payload == IF response.raises # "" THEN <<>> ELSE FirstPayload(response.value)
           retried == response.raises \in {"TypeError", "AssertionError"}
           c == [call EXCEPT !.calls = Append(@, "scroll"),
                             !.scrolled = Append(@, response),
                             !.loaded = IF retried \/ (response.raises # ""
                                                       /\ call.pc = "load_retry")
                                        THEN @
                                        ELSE Append(@, [ingest_id |-> ingest_id,
                                                        payload |-> payload])]
           usable == payload # <<>> /\ Truthy(CoerceRepoUrl(payload[1]))
           listed == IF usable
                     THEN Append(call.result, RepoMetadata(ingest_id, payload[1], <<>>))
                     ELSE call.result
       IN  call' =
             IF response.raises # "" /\ call.pc = "load_retry"
             THEN Raised(c, response.raises)
             ELSE IF retried
             THEN [c EXCEPT !.pc = "load_retry"]
             ELSE IF call.op = "get_completed_repository"
             THEN IF usable THEN [c EXCEPT !.pc = "count", !.result = listed]
                  ELSE Returned(c, <<>>)
             ELSE IF Tail(call.todo) = <<>> THEN Returned(c, listed)
             ELSE [c EXCEPT !.pc = "load", !.todo = Tail(@), !.result = listed]
    /\ ReaderFrame

\* get_completed_repository(ingest_id)
StartGet(ingest_id) ==
    /\ call.op = "none"
    /\ call' = ReaderStart("get_completed_repository", "load", <<>>, 0, <<ingest_id>>)
    /\ ReaderFrame

\* count_snippets_for_repo(repo_name)
StartCount ==
    /\ call.op = "none"
    /\ call' = ReaderStart("count_snippets_for_repo", "count", <<>>, 0, <<>>)
    /\ ReaderFrame

\* client.count answers: within _count_snippets_for_ingest at the end of
\* get_completed_repository, or within count_snippets_for_repo
Count(response) ==
    /\ call.op \in {"get_completed_repository", "count_snippets_for_repo"}
    /\ call.pc = "count"
    /\ LET c == [call EXCEPT !.calls = Append(@, "count")] IN
       call' = IF call.op = "get_completed_repository"
               THEN Returned(c, <<[call.result[1] EXCEPT
                                     !.snippet_count = CountSnippets(response)]>>)
               ELSE Returned(c, CountSnippets(response))
    /\ ReaderFrame

\* query(query_text, limit=limit, repo_name=repo_name, language=language); filter is
\* the combined filter the call builds once it has a query vector
StartQuery(query_text, limit, repo_name, language) ==
    /\ call.op = "none"
    /\ LET c == [ReaderStart("query", "embed", query_text, limit, <<>>)
                  EXCEPT !.filter = CombineFilters(repo_name, language)]
       IN  call' = IF QueryShortCircuits(query_text, limit) THEN Returned(c, <<>>) ELSE c
    /\ ReaderFrame

\* embedder.embed([query_text]) answers: an exception, or that many vectors
Embed(response) ==
    /\ call.op = "query" /\ call.pc = "embed"
    /\ LET c == [call EXCEPT !.calls = Append(@, "embed")] IN
       call' = IF response.raises # "" THEN Raised(c, response.raises)
               ELSE IF response.value = 0 THEN Returned(c, <<>>)
               ELSE [c EXCEPT !.pc = "mmr", !.query_vector = <<1>>]
    /\ ReaderFrame

\* client.mmr answers
Mmr(response) ==
    /\ call.op = "query" /\ call.pc = "mmr"
    /\ LET c == [call EXCEPT !.calls = Append(@, "mmr"),
                             !.sent = Append(@, MmrRequest(call)),
                             !.answers = Append(@, response)] IN
       call' = IF response.raises # "" THEN [c EXCEPT !.pc = "search"]
               ELSE Returned(c, ParseResults(response.value))
    /\ ReaderFrame

\* client.search answers
Search(response) ==
    /\ call.op = "query" /\ call.pc = "search"
    /\ LET c == [call EXCEPT !.calls = Append(@, "search"),
                             !.sent = Append(@, SearchRequest(call)),
                             !.answers = Append(@, response)] IN
       call' = IF response.raises # "" THEN Raised(c, response.raises)
               ELSE Returned(c, ParseResults(response.value))
    /\ ReaderFrame

InitReader == InitStoreVars /\ IdlePipeVars /\ IdleWorkerVars /\ IdleCallVars

NextReader ==
    \/ \E limit \in {0, 1, 5}, exclude_ids \in {{}, {"job-a"}} : StartList(limit, exclude_ids)
    \/ \E response \in FacetResponses : Facet(response)
    \/ \E response \in GroupResponses : Group(response)
    \/ \E response \in ScrollResponses : ScrollIds(response)
    \/ \E response \in LoadResponses : LoadMetadata(response)
    \/ StartGet("job-a")
    \/ StartCount
    \/ \E response \in CountResponses : Count(response)
    \/ \E query_text \in QueryTexts, limit \in QueryLimits, args \in QueryFilters :
          StartQuery(query_text, limit, args[1], args[2])
    \/ \E response \in EmbedResponses : Embed(response)
    \/ \E response \in MmrResponses : Mmr(response)
    \/ \E response \in SearchResponses : Search(response)

SpecReader == InitReader /\ [][NextReader]_vars

\* the ingest ids of a listing result, in order
ResultIngestIds == [k \in 1..Len(call.result) |-> call.result[k].ingest_id]

\* C15 as stated: list_completed_repositories, when facet raises AttributeError,
\* grouping raises a generic error and client.scroll answers with the page
\* [job-a, job-b] and with empty pages from then on, returns the metadata of
\* exactly job-a and job-b, in that order.
C15_ScrollFallbackListsFoundIds ==
    (/\ call.op = "list_completed_repositories"
     /\ call.pc \in {"returned", "raised"}
     /\ call.exclude_ids = {}
     /\ Len(call.outcomes) >= 2
     /\ call.outcomes[1] = "AttributeError"
     /\ call.outcomes[2] = "error"
     /\ Len(call.scrolled) >= 1
     /\ call.scrolled[1] = Return(Page(<<Pa, Pb>>, <<>>))
     /\ \A k \in 2..Len(call.scrolled) : call.scrolled[k] = Return(EmptyPage))
    => /\ call.pc = "returned"
       /\ ResultIngestIds = <<"job-a", "job-b">>

\* C16 as stated: no reader operation lets an exception of a helper call reach its
\* caller, whatever the embedding and index clients do.
C16_ReaderNeverRaises ==
    call.op \in {"query", "list_completed_repositories", "get_completed_repository",
                 "count_snippets_for_repo"}
    => call.pc # "raised"

\* C17: query with blank query text or a limit <= 0 returns an empty list and calls
\* neither the embedding client nor the index (no embed, no mmr, no search).
C17_BlankQueryShortCircuits ==
    (/\ call.op = "query"
     /\ \/ \A k \in 1..Len(call.query_text) : call.query_text[k] \in Whitespace
        \/ call.limit <= 0)
    => /\ call.pc = "returned"
       /\ call.result = <<>>
       /\ call.calls = <<>>

\* a query with real text and a limit of zero
C17_ZeroLimitWithText ==
    /\ call.op = "query"
    /\ call.query_text = <<"q">>
    /\ call.limit = 0
    /\ call.pc = "returned"
    /\ call.calls = <<>>

\* C31: in query, whenever mmr raises (AttributeError or any other exception) the
\* plain search is issued exactly once, with the query vector, the filter and the
\* limit mmr was given, and the parsed results of the search are what query returns;
\* when mmr answers with results the search is not called.
C31_MmrFailureFallsBackToSearch ==
    (call.op = "query" /\ Len(call.sent) >= 1)
    => /\ call.sent[1].method = "mmr"
       /\ call.answers[1].raises # ""
             => /\ call.pc \in {"search", "returned", "raised"}
                /\ call.pc # "search"
                      => /\ Len(call.sent) = 2
                         /\ call.sent[2] = [call.sent[1] EXCEPT !.method = "search"]
                /\ call.pc = "returned"
                      => call.result = ParseResults(call.answers[2].value)
       /\ call.answers[1].raises = ""
             => /\ Len(call.sent) = 1
                /\ call.pc = "returned"
                /\ call.result = ParseResults(call.answers[1].value)

\* C31 witness: mmr raised AttributeError on a filtered query and the results of the
\* search, one of them without a required field, came back parsed
C31_FellBackWithFilter ==
    /\ call.op = "query" /\ call.pc = "returned"
    /\ Len(call.answers) = 2
    /\ call.answers[1].raises = "AttributeError"
    /\ call.answers[2] = Return(<<"partial", "full">>)
    /\ call.filter # <<>>
    /\ call.result = <<"full">>

\* the answers client.scroll gave to _scroll_ingest_ids (those that follow are the
\* answers to the metadata loads)
DiscoveryAnswers == SubSeq(call.scrolled, 1, Len(call.outcomes) - 2)

\* the payloads of the pages the scan was given, in order
RECURSIVE PayloadsOf(_)
PayloadsOf(answers) ==
    IF answers = <<>> THEN <<>>
    ELSE (IF Head(answers).raises = "" THEN Head(answers).value.points ELSE <<>>)
         \o PayloadsOf(Tail(answers))

\* the distinct non-empty ingest ids of payloads, in first-seen order
RECURSIVE FirstSeen(_, _)
FirstSeen(payloads, ids) ==
    IF payloads = <<>> THEN ids
    ELSE LET ingest_id == Head(payloads).ingest_id IN
         IF ingest_id \in {NONE, ""} \/ \E k \in 1..Len(ids) : ids[k] = ingest_id
         THEN FirstSeen(Tail(payloads), ids)
         ELSE FirstSeen(Tail(payloads), Append(ids, ingest_id))

\* C36: once the scroll strategy has ended, the ids it found are the distinct
\* non-empty ingest ids of the pages it was given, in first-seen order and cut to
\* limit ids; it has stopped with a next-page offset in hand only when limit ids were
\* collected.
C36_ScrollScanExhaustive ==
    (/\ call.op = "list_completed_repositories"
     /\ Len(call.outcomes) >= 3
     /\ call.pc \in {"load", "load_retry", "returned"})
    => LET answers == DiscoveryAnswers
           found == FirstSeen(PayloadsOf(answers), <<>>)
           final == answers[Len(answers)]
       IN  /\ call.ingest_ids = SubSeq(found, 1, Min(call.limit, Len(found)))
           /\ Len(call.ingest_ids) <= call.limit
           /\ \A i, j \in 1..Len(call.ingest_ids) :
                 call.ingest_ids[i] = call.ingest_ids[j] => i = j
           /\ (final.raises = "" /\ final.value.points # <<>>
               /\ final.value.next_page # <<>>)
              => Len(call.ingest_ids) = call.limit

\* C36 witness: a scan over three pages, with a point without ingest id and with
\* job-a on every page, found job-a and then job-b
C36_ThreePagesTwoIds ==
    /\ call.op = "list_completed_repositories"
    /\ Len(call.outcomes) = 5
    /\ call.pc \in {"load", "returned"}
    /\ DiscoveryAnswers = <<Return(Page(<<Pn, Pa>>, <<1>>)), Return(Page(<<Pa>>, <<1>>)),
                            Return(Page(<<Pb, Pa>>, <<>>))>>
    /\ call.ingest_ids = <<"job-a", "job-b">>

\* the non-empty values a payload holds in its repository URL fields
UrlFields(payload) == {url \in {payload.repo_url, payload.repo} : url \notin {NONE, ""}}

\* the loads that found a payload naming a repository URL
LoadedWithUrl ==
    SelectSeq(call.loaded,
              LAMBDA l : l.payload # <<>> /\ UrlFields(l.payload[1]) # {})

\* C28: every RepoMetadata list_completed_repositories returns has an ingest_id not
\* in exclude_ids and a repo_url taken from a non-empty repository URL field of the
\* payload loaded for that id; an id whose load finds no payload, or a payload
\* without a non-empty repository URL, produces no record.
C28_MetadataOnlyWithUrl ==
    (call.op = "list_completed_repositories" /\ call.pc = "returned")
    => /\ \A j \in 1..Len(call.loaded) : call.loaded[j].ingest_id \notin call.exclude_ids
       /\ Len(call.result) = Len(LoadedWithUrl)
       /\ \A k \in 1..Len(call.result) :
             /\ call.result[k].ingest_id = LoadedWithUrl[k].ingest_id
             /\ call.result[k].ingest_id \notin call.exclude_ids
             /\ call.result[k].repo_url \in UrlFields(LoadedWithUrl[k].payload[1])

\* a listing that passed over an excluded id, skipped an id whose payload names no
\* URL and returned the metadata of a third
C28_ExcludedSkippedListed ==
    /\ call.op = "list_completed_repositories" /\ call.pc = "returned"
    /\ \E k \in 1..Len(call.ingest_ids) : call.ingest_ids[k] \in call.exclude_ids
    /\ \E j \in 1..Len(call.loaded) : call.loaded[j].payload = <<Pu>>
    /\ Len(call.result) = 1


\* ------------------------------------------ vector index writer: write and delete

\* the snippet lists given to write: what a run returned for a repository, with the
\* repository fields and the ingest id of the job set on every snippet
WrittenTitles == {<<>>, <<"t1">>, <<"t1", "t1">>, <<"t1", "t2">>}
WrittenLists ==
    {EnrichSnippets([i \in 1..Len(titles) |-> SnippetOf(repo, titles[i])],
                    RepoUrlOf(repo), RepoNameOf(repo), ingest_id) :
        titles \in WrittenTitles, repo \in Jobs, ingest_id \in Jobs}

\* the numbers of vectors the embedding client returns for a write
VectorCounts == {0, 1, 2, 3}

\* the identifier arguments of delete_repository
DeleteIngestIds == {NONE, "", "a"}
DeleteRepoNames == {NONE, RepoNameOf("a")}
DeleteRepoUrls == {NONE, RepoUrlOf("a")}

\* what client.delete does: "none" (it deletes), "legacy" (TypeError naming
\* points_selector, and the retry with filter= deletes), "TypeError" (another
\* TypeError), "404" (QdrantUnexpectedResponse with 404), "error" (any other)
DeleteFaults == {"none", "legacy", "TypeError", "404", "error"}

\* the conditions list of delete_repository: a FieldCondition for every identifier
\* that is neither None nor empty
Conditions(ingest_id, repo_name, repo_url) ==
    (IF Truthy(ingest_id) THEN <<[key |-> "ingest_id", value |-> ingest_id]>> ELSE <<>>)
    \o (IF Truthy(repo_name) THEN <<[key |-> "repo_name", value |-> repo_name]>> ELSE <<>>)
    \o (IF Truthy(repo_url) THEN <<[key |-> "repo_url", value |-> repo_url]>> ELSE <<>>)

\* a FieldCondition with MatchValue holds for a payload
MatchesCondition(payload, condition) == payload[condition.key] = condition.value

\* models.Filter(should=conditions): a payload passes when some condition holds
FilterShould(payload, conditions) ==
    \E k \in 1..Len(conditions) : MatchesCondition(payload, conditions[k])

\* models.Filter(must=conditions): a payload passes when every condition holds
FilterMust(payload, conditions) ==
    \A k \in 1..Len(conditions) : MatchesCondition(payload, conditions[k])

\* _extract_deleted_count: count is what the client reports, <<>> when it reports none
ExtractDeletedCount(count) == IF count = <<>> THEN 0 ELSE count[1]

\* SnippetVectorWriter.delete_repository; deletes is the number of client.delete
\* calls, applied whether the index carried one of them out
delete_repository(pts, coll, ingest_id, repo_name, repo_url, fault, count) ==
    LET conditions == Conditions(ingest_id, repo_name, repo_url)
        kept == {p \in DOMAIN pts : ~FilterMust(pts[p], conditions)}
        deleted == [p \in kept |-> pts[p]]
        out(p, exc, ret, deletes, applied) ==
            [points |-> p, exc |-> exc, ret |-> ret, deletes |-> deletes,
             applied |-> applied]
    IN  IF ~coll THEN out(pts, "", 0, 0, FALSE)
        ELSE IF conditions = <<>> THEN out(pts, "ValueError", 0, 0, FALSE)
        ELSE IF fault = "none" THEN out(deleted, "", ExtractDeletedCount(count), 1, TRUE)
        ELSE IF fault = "legacy"
        THEN out(deleted, "", ExtractDeletedCount(count), 2, TRUE)
        ELSE IF fault = "404" THEN out(pts, "", 0, 1, FALSE)
        ELSE out(pts, fault, 0, 1, FALSE)

\* -------- SpecWriter: calls of write and delete_repository on one collection

\* the embedding inputs of a snippet list, in order
Inputs(snippets) == [i \in 1..Len(snippets) |-> EmbeddingInput(snippets[i])]

\* the call before was a write that stored all of its snippets
PreviousWrite ==
    /\ call.op = "write"
    /\ call.snippets # <<>>
    /\ call.exc = "" /\ call.ret = Len(call.snippets)

\* the log of a writer call: its arguments, whether it found the collection, and how
\* it ended; rewrite says that a write followed a write of the same embedding inputs
WriterCall(op, snippets, ids, rewrite, exists, out) ==
    [op |-> op, snippets |-> snippets, ingest_id |-> ids[1], repo_name |-> ids[2],
     repo_url |-> ids[3], rewrite |-> rewrite, exists |-> exists, exc |-> out.exc,
     ret |-> out.ret, deletes |-> out.deletes, applied |-> out.applied]

WriterFrame == UNCHANGED <<storeVars, pipeVars, wpc, wexc, wsnippets>>

Write(snippets, nvectors, fault) ==
    /\ LET w == write(points, collection, snippets, nvectors, fault) IN
       /\ points' = w.points
       /\ collection' = w.collection
       /\ call' = WriterCall("write", snippets, <<NONE, NONE, NONE>>,
                             PreviousWrite /\ Inputs(call.snippets) = Inputs(snippets),
                             collection,
                             [exc |-> w.exc, ret |-> w.written, deletes |-> 0,
                              applied |-> FALSE])
    /\ WriterFrame

DeleteRepository(ingest_id, repo_name, repo_url, fault, count) ==
    /\ LET d == delete_repository(points, collection, ingest_id, repo_name, repo_url,
                                  fault, count)
       IN  /\ points' = d.points
           /\ call' = WriterCall("delete_repository", <<>>,
                                 <<ingest_id, repo_name, repo_url>>, FALSE,
                                 collection, d)
    /\ UNCHANGED collection
    /\ WriterFrame

InitWriter == InitStoreVars /\ IdlePipeVars /\ IdleWorkerVars /\ IdleCallVars

NextWriter ==
    \/ \E snippets \in WrittenLists, nvectors \in VectorCounts :
          Write(snippets, nvectors, "none")
    \/ \E snippets \in WrittenLists, fault \in {"embed", "upsert"} :
          Write(snippets, Len(snippets), fault)
    \/ \E ingest_id \in DeleteIngestIds, repo_name \in DeleteRepoNames,
          repo_url \in DeleteRepoUrls, fault \in DeleteFaults, count \in {<<>>, <<1>>} :
          DeleteRepository(ingest_id, repo_name, repo_url, fault, count)

SpecWriter == InitWriter /\ [][NextWriter]_vars

\* the titles and descriptions of a snippet list, in order
TitlesAndDescriptions(snippets) ==
    [i \in 1..Len(snippets) |-> <<snippets[i].title, snippets[i].description>>]

\* C18: the point id depends on title and description only: no two points of the
\* index have the same title and description, and a write that stores snippets with
\* the titles and descriptions of the write before it leaves the set of point ids as
\* that write left it.
C18_SameInputSamePoint ==
    [][/\ \A p, q \in DOMAIN points' :
             (points'[p].title = points'[q].title
              /\ points'[p].description = points'[q].description) => p = q
       /\ (/\ PreviousWrite
           /\ call'.op = "write"
           /\ call'.exc = "" /\ call'.ret = Len(call'.snippets)
           /\ TitlesAndDescriptions(call.snippets) = TitlesAndDescriptions(call'.snippets))
          => DOMAIN points' = DOMAIN points]_vars

\* two snippets with one title and description but different code, written by two
\* successive calls, are one point, and it holds the code written last
C18_RewrittenWithOtherCode ==
    /\ call.op = "write"
    /\ call.rewrite
    /\ call.exc = "" /\ call.ret = 1 /\ Len(call.snippets) = 1
    /\ Cardinality(DOMAIN points) = 1
    /\ \E p \in DOMAIN points :
          points[p].code = call.snippets[1].code /\ points[p].code[2] = "b"

\* the identifiers a delete_repository call was given
Supplied == Conditions(call.ingest_id, call.repo_name, call.repo_url)

\* C19 as stated: after delete_repository with several identifiers has issued its
\* delete, no point that matched any one of the identifiers is left.
C19_DeleteMatchesAnyIdentifier ==
    (/\ call.op = "delete_repository"
     /\ Len(Supplied) >= 2
     /\ call.exists /\ call.exc = "" /\ call.deletes = 1 /\ call.applied)
    => \A p \in DOMAIN points : ~FilterShould(points[p], Supplied)

\* C20 as stated: delete_repository without an identifier raises ValueError and
\* issues no delete, whether or not the collection exists.
C20_NoIdentifierRejected ==
    (call.op = "delete_repository" /\ Supplied = <<>>)
    => (call.exc = "ValueError" /\ call.deletes = 0)

\* the payload fields that tie a point to its ingest
IngestFields(payload) ==
    <<payload.ingest_id, payload.repo_name, payload.repo_url, payload.code, payload.path>>

\* C34 as stated: a write of the snippets of one ingest changes or removes no point
\* of another ingest: every point stored for another ingest is still stored after
\* the write, with its ingest_id, repo_name, repo_url, code and path.
C34_OtherIngestUntouched ==
    [][(call'.op = "write" /\ call'.snippets # <<>>)
       => \A p \in DOMAIN points :
             points[p].ingest_id # call'.snippets[1].ingest_id
             => /\ p \in DOMAIN points'
                /\ IngestFields(points'[p]) = IngestFields(points[p])]_vars


\* ---- SpecUpsert: write with the answer of the embeddings API and its upsert calls

\* the snippet lists, the configured upsert_batch_size values, and what the
\* embeddings API answers for each input (TRUE: values, FALSE: no values)
UpsertTitles == {<<>>, <<"t1">>, <<"t1", "t2">>, <<"t1", "t2", "t3">>}
UpsertLists ==
    {EnrichSnippets([i \in 1..Len(titles) |-> SnippetOf("a", titles[i])],
                    RepoUrlOf("a"), RepoNameOf("a"), "a") : titles \in UpsertTitles}
UpsertBatchSizes == {-1, 0, 1, 2, 100}
Answers(snippets) == [1..Len(snippets) -> BOOLEAN]

\* the vector the embedding model produces for an input
VectorOf(embedding_input) == <<"vector", embedding_input>>

\* GeminiEmbeddingClient.embed: the vectors of the embeddings that carry values, in
\* order; an embedding without values is passed over
embed(texts, answered) ==
    LET positions == SelectSeq([i \in 1..Len(texts) |-> i], LAMBDA i : answered[i])
    IN  [k \in 1..Len(positions) |-> VectorOf(texts[positions[k]])]

\* models.PointStruct(id=, vector=, payload=) for a snippet and the vector zipped
\* with it
PointStruct(snippet, vector) ==
    [id |-> PointId(EmbeddingInput(snippet)), vector |-> vector,
     payload |-> BuildPayload(snippet, EmbeddingInput(snippet))]

\* a write that goes on to the index with no vectors at all
SkipsIndexNever(vectors) == FALSE

\* "if not vectors: return 0"
SkipsIndex(vectors) == vectors = <<>>

\* a loop that sends every point in one upsert call
OneBatch(structs, batch_size) == <<structs>>

\* the upsert loop: the points of each client.upsert call, in order
RECURSIVE Batches(_, _)
Batches(structs, batch_size) ==
    IF structs = <<>> THEN <<>>
    ELSE LET n == Min(batch_size, Len(structs)) IN
         <<SubSeq(structs, 1, n)>> \o
         Batches(SubSeq(structs, n + 1, Len(structs)), batch_size)

\* total_written: the sum of len(points) over the upsert calls
RECURSIVE TotalWritten(_)
TotalWritten(upserts) ==
    IF upserts = <<>> THEN 0 ELSE Len(Head(upserts)) + TotalWritten(Tail(upserts))

\* SnippetVectorWriter.write with the embedding client and the upsert calls spelled
\* out: vectors is what embed returned, upserts the points of every client.upsert
\* call, ensured whether _ensure_collection ran
WriteUpserts(snippets, answered, batch_size) ==
    /\ call.op \in {"none", "write_upserts"}
    /\ LET vectors == IF snippets = <<>> THEN <<>> ELSE embed(Inputs(snippets), answered)
           limit == Min(Len(snippets), Len(vectors))
           snippet_list == SubSeq(snippets, 1, limit)
           structs == [i \in 1..limit |-> PointStruct(snippet_list[i], vectors[i])]
           skipped == snippets = <<>> \/ SkipsIndex(vectors)
           upserts == IF skipped THEN <<>> ELSE Batches(structs, Max(1, batch_size))
       IN  /\ points' = IF skipped THEN points
                        ELSE UpsertBatches(points, snippet_list, Max(1, batch_size))
           /\ collection' = (collection \/ ~skipped)
           /\ call' = [op |-> "write_upserts", snippets |-> snippets,
                       batch_size |-> batch_size, vectors |-> vectors,
                       exists |-> collection, ensured |-> ~skipped,
                       upserts |-> upserts, exc |-> "",
                       ret |-> TotalWritten(upserts)]
    /\ WriterFrame

InitUpsert == InitStoreVars /\ IdlePipeVars /\ IdleWorkerVars /\ IdleCallVars

NextUpsert ==
    \E snippets \in UpsertLists, batch_size \in UpsertBatchSizes :
       \E answered \in Answers(snippets) : WriteUpserts(snippets, answered, batch_size)

SpecUpsert == InitUpsert /\ [][NextUpsert]_vars

\* the points of all upsert calls of the write, in the order they were sent
RECURSIVE Flatten(_)
Flatten(upserts) == IF upserts = <<>> THEN <<>> ELSE Head(upserts) \o Flatten(Tail(upserts))

\* the payloads write builds for the first m snippets of the call
FirstPayloads(m) ==
    [i \in 1..m |-> BuildPayload(call.snippets[i], EmbeddingInput(call.snippets[i]))]

\* C32: when embed returns m < n vectors for n snippets, write does not raise, sends
\* exactly the first m snippets to the index and returns m; with m = 0 it returns 0
\* and neither ensures the collection nor upserts.
C32_FewerVectorsTruncates ==
    (call.op = "write_upserts" /\ Len(call.vectors) < Len(call.snippets))
    => LET m == Len(call.vectors)
           sent == Flatten(call.upserts)
       IN  /\ call.exc = ""
           /\ call.ret = m
           /\ Len(sent) = m
           /\ [i \in 1..m |-> sent[i].payload] = FirstPayloads(m)
           /\ [i \in 1..m |-> sent[i].vector] = call.vectors
           /\ m = 0 => (call.upserts = <<>> /\ ~call.ensured
                        /\ collection = call.exists)

\* C32 witness: two vectors came back for three snippets, and a later write with no
\* vector at all for its snippets returned 0
C32_TwoOfThreeThenNone ==
    /\ call.op = "write_upserts"
    /\ call.snippets # <<>> /\ call.vectors = <<>> /\ call.ret = 0
    /\ Cardinality(DOMAIN points) = 2

\* C33 as stated: every point write upserts carries the vector the embedding client
\* produced for the embedding input of that same snippet.
C33_VectorOfSameSnippet ==
    call.op = "write_upserts"
    => \A k \in 1..Len(Flatten(call.upserts)) :
          Flatten(call.upserts)[k].vector =
             VectorOf(Flatten(call.upserts)[k].payload.embedding_input)

\* C35: the upsert calls of a write each hold between 1 and max(1, upsert_batch_size)
\* points, their concatenation is the (truncated) snippet list in input order, and
\* the returned count is the number of points over all calls, for every configured
\* batch size, those <= 0 included.
C35_BatchesCoverListInOrder ==
    call.op = "write_upserts"
    => LET sent == Flatten(call.upserts)
           m == Min(Len(call.snippets), Len(call.vectors))
       IN  /\ \A b \in 1..Len(call.upserts) :
                 /\ Len(call.upserts[b]) >= 1
                 /\ Len(call.upserts[b]) <= Max(1, call.batch_size)
           /\ [i \in 1..Len(sent) |-> sent[i].payload] = FirstPayloads(m)
           /\ call.ret = Len(sent)

\* C35 witness: with a batch size of 0 three points went out in three upsert calls
C35_ZeroBatchSizeOneByOne ==
    /\ call.op = "write_upserts"
    /\ call.batch_size = 0
    /\ Len(call.upserts) = 3
    /\ call.ret = 3


\* ------------------------------------------------ api service: list_repositories

\* record_to_summary
record_to_summary(record) ==
    [id |-> record.id, url |-> record.url, repo_name |-> record.repo_name,
     status |-> record.status, process_message |-> record.process_message,
     fail_reason |-> record.fail_reason, progress |-> record.progress]

\* the RepoSummary list_repositories_service builds for a completed ingest
CompletedSummary(metadata) ==
    [id |-> metadata.ingest_id, url |-> metadata.repo_url,
     repo_name |-> metadata.repo_name, status |-> STATUS_DONE,
     process_message |-> "Completed", fail_reason |-> NONE, progress |-> <<100>>]

\* the first loop of list_repositories_service: a summary per record, and
\* summary_index from the id to the position of its summary
RECURSIVE SummarizeRecords(_, _)
SummarizeRecords(recs, acc) ==
    IF recs = <<>> THEN acc
    ELSE LET summary == record_to_summary(Head(recs)) IN
         SummarizeRecords(Tail(recs),
            [summaries |-> Append(acc.summaries, summary),
             summary_index |-> [k \in DOMAIN acc.summary_index \cup {summary.id} |->
                                  IF k = summary.id THEN Len(acc.summaries) + 1
                                  ELSE acc.summary_index[k]]])

\* a merge loop that appends the completed summary whether or not the id is known
RECURSIVE MergeCompletedAppends(_, _)
MergeCompletedAppends(acc, completed_metadata) ==
    IF completed_metadata = <<>> THEN acc
    ELSE MergeCompletedAppends(
            [acc EXCEPT !.summaries = Append(@, CompletedSummary(Head(completed_metadata)))],
            Tail(completed_metadata))

\* the second loop of list_repositories_service: the completed summary is appended
\* for an id summary_index does not know, and replaces the summary at its position
\* otherwise
RECURSIVE MergeCompleted(_, _)
MergeCompleted(acc, completed_metadata) ==
    IF completed_metadata = <<>> THEN acc
    ELSE LET metadata == Head(completed_metadata)
             completed_summary == CompletedSummary(metadata)
         IN  IF metadata.ingest_id \notin DOMAIN acc.summary_index
             THEN MergeCompleted(
                    [summaries |-> Append(acc.summaries, completed_summary),
                     summary_index |->
                        [k \in DOMAIN acc.summary_index \cup {metadata.ingest_id} |->
                            IF k = metadata.ingest_id THEN Len(acc.summaries) + 1
                            ELSE acc.summary_index[k]]],
                    Tail(completed_metadata))
             ELSE MergeCompleted(
                    [acc EXCEPT !.summaries[acc.summary_index[metadata.ingest_id]] =
                                    completed_summary],
                    Tail(completed_metadata))

\* list_repositories_service; response is what reader.list_completed_repositories does
list_repositories_service(st, response) ==
    LET listed == SummarizeRecords(list_records(st),
                                   [summaries |-> <<>>, summary_index |-> <<>>])
    IN  IF response.raises # "" THEN listed.summaries
        ELSE MergeCompleted(listed, response.value).summaries

\* the metadata of a completed ingest as the reader reports it
CompletedMetadata(ingest_id, repo_name) ==
    [ingest_id |-> ingest_id, repo_url |-> "https://example.com/repo",
     repo_name |-> repo_name, snippet_count |-> <<>>]

\* what reader.list_completed_repositories answers: lists of metadata for the id "a",
\* which the status store also uses, and for "job-a", which only the index knows
CompletedIds == {<<>>, <<"a">>, <<"job-a">>, <<"job-a", "a">>, <<"a", "job-a", "a">>}
CompletedResponses ==
    {Raise("error", <<>>)}
    \cup {Return([i \in 1..Len(ids) |-> CompletedMetadata(ids[i], repo_name)]) :
            ids \in CompletedIds, repo_name \in {NONE, "org/done"}}

\* -------- SpecService: status store calls, then one list_repositories request

ListRepositories(response) ==
    /\ call.op = "none"
    /\ call' = [op |-> "list_repositories", response |-> response,
                summaries |-> list_repositories_service(Store, response)]
    /\ UNCHANGED <<storeVars, pipeVars, workerVars>>

InitService == InitStoreVars /\ IdlePipeVars /\ IdleWorkerVars /\ IdleCallVars

NextService ==
    \/ /\ call.op = "none"
       /\ \E repo_id \in Ids :
             \/ CreatePending(repo_id, "org/repo")
             \/ MarkProcessing(repo_id, "msg", NONE, <<40>>)
             \/ MarkFailed(repo_id, "boom", NONE, NONE)
             \/ MarkCompleted(repo_id, NONE, NONE)
    \/ \E response \in CompletedResponses : ListRepositories(response)

SpecService == InitService /\ [][NextService]_vars

\* the ids the reader reported to a list_repositories request
ReportedIds ==
    IF call.response.raises # "" THEN {}
    ELSE {call.response.value[k].ingest_id : k \in 1..Len(call.response.value)}

\* C21: list_repositories returns one summary per distinct id of the status store
\* and the reader; the summary of an id the reader reported is the completed one
\* (done, 100, "Completed", no fail reason), also when the store has a record of
\* that id; an id only the store knows keeps the summary of its record.
C21_OneSummaryPerId ==
    call.op = "list_repositories" =>
        LET summaries == call.summaries
            ids == {summaries[k].id : k \in 1..Len(summaries)}
        IN  /\ ids = ListedIds(Store) \cup ReportedIds
            /\ Len(summaries) = Cardinality(ids)
            /\ \A k \in 1..Len(summaries) :
                  IF summaries[k].id \in ReportedIds
                  THEN /\ summaries[k].status = STATUS_DONE
                       /\ summaries[k].progress = <<100>>
                       /\ summaries[k].process_message = "Completed"
                       /\ summaries[k].fail_reason = NONE
                  ELSE summaries[k] = record_to_summary(Get(Store, summaries[k].id)[1])

\* a request that found "a" failed and "b" processing in the store while the reader
\* reported "a" twice and "job-a": three summaries, "a" completed, "b" as stored
C21_ReplacedAppendedKept ==
    /\ call.op = "list_repositories"
    /\ call.response.raises = ""
    /\ Len(call.response.value) = 3
    /\ Get(Store, "a") # <<>> /\ Get(Store, "a")[1].status = STATUS_FAILED
    /\ Get(Store, "b") # <<>> /\ Get(Store, "b")[1].status = STATUS_PROCESSING
    /\ Len(call.summaries) = 3
    /\ \E k \in 1..3 : call.summaries[k].id = "a" /\ call.summaries[k].status = STATUS_DONE


\* -------- SpecStorage: calls of the add_snippet tool on one SnippetStorage

\* the arguments of an add_snippet call (title, description, language, code,
\* filename): all given, or one of them empty, blank or with a leading blank
GivenFields == [k \in 1..5 |-> <<"x">>]
FieldLists ==
    {GivenFields}
    \cup {[GivenFields EXCEPT ![k] = value] :
            k \in 1..5, value \in {<<>>, <<" ">>, <<" ", "x">>}}

\* SnippetStorage.get_snippet_count
get_snippet_count(state) == Len(get_all_snippets(state))

StorageFrame ==
    UNCHANGED <<runpc, max_concurrency, total_files, upc, semaphore, executor, attempts,
                outcome, results, processed_count, callbacks, errors, stats,
                on_file_complete, storeVars, workerVars>>

AddSnippet(fields) ==
    /\ get_snippet_count(storage) < MaxSnippets
    /\ LET out == add_snippet(storage, fields[1], fields[2], fields[3], fields[4],
                              fields[5])
       IN  /\ storage' = out.state
           /\ call' = [op |-> "add_snippet", fields |-> fields, added |-> out.added]
    /\ StorageFrame

ClearSnippets ==
    /\ storage # <<>>
    /\ storage' = <<>>
    /\ call' = [op |-> "clear_snippets", fields |-> <<>>, added |-> FALSE]
    /\ StorageFrame

InitStorage == InitStoreVars /\ IdlePipeVars /\ IdleWorkerVars /\ IdleCallVars

NextStorage ==
    \/ \E fields \in FieldLists : AddSnippet(fields)
    \/ ClearSnippets

SpecStorage == InitStorage /\ [][NextStorage]_vars

\* C26 as stated: every snippet in the storage has a non-empty title, description,
\* language, code and filename, and an add_snippet call with a field that is empty,
\* also once it is stripped, stores nothing.
C26_StoredFieldsNonEmpty ==
    /\ \A k \in 1..Len(get_all_snippets(storage)) :
          LET snippet == get_all_snippets(storage)[k] IN
          /\ snippet.title # <<>> /\ snippet.description # <<>>
          /\ snippet.language # <<>> /\ snippet.code # <<>> /\ snippet.filename # <<>>
    /\ (call.op = "add_snippet" /\ ~AllFieldsGivenStripped(call.fields)) => ~call.added

====
